---- MODULE Spec2Model ----
(***************************************************************************)
(* Johann: the scenario scheduling and state-aggregation engine.           *)
(*                                                                         *)
(* The module models the Score / Measure / Player objects of               *)
(* src/johann/score.py, measure.py and player.py, the status aggregation   *)
(* of src/johann/util.py, the stored-data store, and the conductor's       *)
(* request handlers of src/johann/api_conductor.py that start a run.       *)
(***************************************************************************)
EXTENDS Integers, Sequences, FiniteSets, TLC

(***************************************************************************)
(* State model (src/johann/shared/enums.py, src/johann/util.py)            *)
(***************************************************************************)

\* enums.py: class TaskState
TaskState ==
    {"FAILURE", "SUCCESS", "PENDING", "STARTED", "RETRY", "PROGRESS", "QUEUED", "DEFERRED"}

\* A mutant of sorted_pri: RETRY and FAILURE change places.
sorted_pri_swapped ==
    <<"SUCCESS", "PENDING", "DEFERRED", "QUEUED", "STARTED", "PROGRESS", "FAILURE", "RETRY">>

\* util.py task_state_priority: the list sorted_pri, low to high
sorted_pri ==
    <<"SUCCESS", "PENDING", "DEFERRED", "QUEUED", "STARTED", "PROGRESS", "RETRY", "FAILURE">>

\* list.index of Python: the first position (from 0) holding the value
ListIndex(lst, v) ==
    (CHOOSE i \in 1..Len(lst) : lst[i] = v /\ \A j \in 1..(i - 1) : lst[j] # v) - 1

\* F applied to the value of v: an intermediate result of the code, computed once
Apply(v, F(_)) ==
    CHOOSE r \in {F(x) : x \in {v}} : TRUE

\* util.py task_state_priority(state); a state outside TaskState raises ValueError,
\* which the callers below test with IsTaskState before they call it
task_state_priority(state) ==
    ListIndex(sorted_pri, state)

IsTaskState(state) ==
    state \in TaskState

\* the states Celery reports as ready (celery.states.READY_STATES)
READY_STATES ==
    {"SUCCESS", "FAILURE", "REVOKED"}

(***************************************************************************)
(* Aggregation of task states into a group (util.py celery_group_status)   *)
(***************************************************************************)

\* the loop "for task in group_result.children" of celery_group_status: the state is
\* raised to every child's state of higher priority; raised is TRUE once a child's
\* state is not a TaskState (task_state_priority raises ValueError)
RECURSIVE GroupFold(_, _)
GroupFold(acc, children) ==
    IF children = <<>> \/ acc.raised
    THEN acc
    ELSE LET s == Head(children)
             Rest(a) == GroupFold(a, Tail(children))
         IN IF ~IsTaskState(s)
            THEN [acc EXCEPT !.raised = TRUE]
            ELSE Apply([state |-> IF task_state_priority(s) > task_state_priority(acc.state)
                                  THEN s ELSE acc.state,
                        failed |-> acc.failed \/ s = "FAILURE",
                        raised |-> FALSE],
                       Rest)

AllIn(seq, S) ==
    \A i \in 1..Len(seq) : seq[i] \in S

\* util.py celery_group_status(group_result): children are the states of the group's
\* tasks in the group's order. state starts PENDING; finished is group_result.ready();
\* status is non-empty iff some task failed; group_result.successful() sets SUCCESS.
celery_group_status(children) ==
    LET Result(f) ==
          [state    |-> IF AllIn(children, {"SUCCESS"}) THEN "SUCCESS" ELSE f.state,
           finished |-> AllIn(children, READY_STATES),
           status   |-> f.failed,
           raised   |-> f.raised]
    IN Apply(GroupFold([state |-> "PENDING", failed |-> FALSE, raised |-> FALSE],
                       children),
             Result)

(***************************************************************************)
(* Aggregation of player groups into a Measure (measure.py evaluate_state) *)
(***************************************************************************)

\* the loop "for player_name, tstat in task_status.items()" of Measure.evaluate_state
RECURSIVE MeasureFold(_, _)
MeasureFold(acc, tstats) ==
    IF tstats = <<>>
    THEN acc
    ELSE LET t == Head(tstats)
             Rest(a) == MeasureFold(a, Tail(tstats))
         IN Apply([state    |-> IF task_state_priority(t.state)
                                    > task_state_priority(acc.state)
                                 THEN t.state ELSE acc.state,
                   success  |-> acc.success + (IF t.state = "SUCCESS" THEN 1 ELSE 0),
                   finished |-> acc.finished + (IF t.finished THEN 1 ELSE 0)],
                  Rest)

\* A mutant of Measure_evaluate_state: a finished player group counts as a success.
Measure_evaluate_state_finished_is_success(prior, nplayers, tstats) ==
    LET Result(f) ==
          [state    |-> IF f.finished = nplayers THEN "SUCCESS" ELSE f.state,
           finished |-> (f.state = "FAILURE" /\ f.finished = Len(tstats))
                        \/ f.finished = nplayers]
    IN Apply(MeasureFold([state |-> prior, success |-> 0, finished |-> 0], tstats), Result)

\* A mutant of Measure_evaluate_state: only the Players that were dispatched count.
Measure_evaluate_state_dispatched_only(prior, nplayers, tstats) ==
    LET Result(f) ==
          [state    |-> IF f.success = Len(tstats) THEN "SUCCESS" ELSE f.state,
           finished |-> (f.state = "FAILURE" /\ f.finished = Len(tstats))
                        \/ f.finished = nplayers]
    IN Apply(MeasureFold([state |-> prior, success |-> 0, finished |-> 0], tstats), Result)

\* measure.py Measure.evaluate_state, the state and finished flag it computes for a
\* Measure that is not finished: prior is self.state, nplayers is
\* len(self.player_names), tstats the statuses of celery_group_tasks in its order
Measure_evaluate_state(prior, nplayers, tstats) ==
    LET Result(f) ==
          [state    |-> IF f.success = nplayers THEN "SUCCESS" ELSE f.state,
           finished |-> (f.state = "FAILURE" /\ f.finished = Len(tstats))
                        \/ f.finished = nplayers]
    IN Apply(MeasureFold([state |-> prior, success |-> 0, finished |-> 0], tstats), Result)

(***************************************************************************)
(* Aggregation of Measures into the Score (score.py Score.evaluate_state)  *)
(***************************************************************************)

\* the second loop "for m in self.measures" of Score.evaluate_state
RECURSIVE ScoreFold(_, _)
ScoreFold(acc, ms) ==
    IF ms = <<>>
    THEN acc
    ELSE LET m == Head(ms)
             Rest(a) == ScoreFold(a, Tail(ms))
         IN Apply([state       |-> IF task_state_priority(m.state)
                                       > task_state_priority(acc.state)
                                    THEN m.state ELSE acc.state,
                   not_success |-> acc.not_success + (IF m.state # "SUCCESS" THEN 1 ELSE 0),
                   unfinished  |-> acc.unfinished + (IF ~m.finished THEN 1 ELSE 0)],
                  Rest)

\* A mutant of Score_aggregate: a Score whose Measures have all finished is SUCCESS.
Score_aggregate_finished_is_success(prior, prior_finished, ms) ==
    LET Result(f) ==
          [state    |-> IF f.unfinished = 0 THEN "SUCCESS" ELSE f.state,
           finished |-> prior_finished \/ f.unfinished = 0]
    IN Apply(ScoreFold([state |-> prior, not_success |-> 0, unfinished |-> 0], ms), Result)

\* score.py Score.evaluate_state from "not_success = 0" on: prior is self.state,
\* prior_finished is self.finished, ms the Measures' (state, finished) in order
Score_aggregate(prior, prior_finished, ms) ==
    LET Result(f) ==
          [state    |-> IF f.not_success = 0 THEN "SUCCESS" ELSE f.state,
           finished |-> prior_finished \/ f.unfinished = 0]
    IN Apply(ScoreFold([state |-> prior, not_success |-> 0, unfinished |-> 0], ms), Result)

(***************************************************************************)
(* The scenario: one Score with two user Measures and two Players          *)
(***************************************************************************)

\* score.py conductor_local_measure_dicts: the local Measure play() inserts
tune_orchestra ==
    "tune_orchestra"

\* config.py CONDUCTOR_ALLHOSTS_PLAYER_NAME
CONDUCTOR_ALLHOSTS_PLAYER_NAME ==
    "conductor_allhosts"

\* the user Measures of a scenario file, in definition order
UserMeasures ==
    <<"A", "B">>

MeasureNames ==
    {tune_orchestra, "A", "B"}

\* the Players of the scenario file and their hostnames (player.py Player.hostnames)
UserPlayers ==
    <<"p1", "p2">>

PlayerNames ==
    {"p1", "p2", CONDUCTOR_ALLHOSTS_PLAYER_NAME}

HostNames ==
    {"h1", "h2"}

user_hostnames ==
    [p \in {"p1", "p2"} |-> IF p = "p1" THEN <<"h1">> ELSE <<"h1", "h2">>]

\* the scenario files the model draws from: depends_on, dependency_proof and players
\* of each user Measure (measure.py MeasureSchema); cant_depend_on_yourself and
\* validate_measure_depends_on reject nothing in this set
ScoreFiles ==
    [measures         : {UserMeasures},
     players          : {UserPlayers},
     depends_on       : {[m \in {"A", "B"} |-> IF m = "A" THEN da ELSE db] :
                           da \in {<<>>, <<"B">>}, db \in {<<>>, <<"A">>}},
     dependency_proof : {[m \in {"A", "B"} |-> m = "A" /\ pa] : pa \in BOOLEAN},
     player_names     : {[m \in {"A", "B"} |-> IF m = "A" THEN pa ELSE <<"p1">>] :
                           pa \in {<<"p1">>, <<"p1", "p2">>}},
     create_hosts     : BOOLEAN]

\* status messages, by kind (measure.status holds the full texts)
DEPENDENCY_FAILED == "dependency failed"
FAILED_TO_PLAY    == "failed to play measure"
TASK_FAILED       == "task failed"
NO_STATUS         == ""

StatusKeys ==
    {"all", "p1", "p2", CONDUCTOR_ALLHOSTS_PLAYER_NAME}

SeqToSet(seq) ==
    {seq[i] : i \in 1..Len(seq)}

RECURSIVE RemoveFirst(_, _)
\* list.remove of Python: the first occurrence is removed
RemoveFirst(seq, v) ==
    IF seq = <<>> THEN <<>>
    ELSE IF Head(seq) = v THEN Tail(seq)
    ELSE <<Head(seq)>> \o RemoveFirst(Tail(seq), v)

\* measure.py Measure.__init__ and score.py Score.__init__: the Score object the
\* loader builds from a scenario file f
NewScore(f) ==
    [measures           |-> f.measures,
     players            |-> f.players,
     depends_on         |-> [m \in MeasureNames |->
                               IF m = tune_orchestra THEN <<>> ELSE f.depends_on[m]],
     dependency_proof   |-> [m \in MeasureNames |->
                               IF m = tune_orchestra THEN FALSE ELSE f.dependency_proof[m]],
     player_names       |-> [m \in MeasureNames |->
                               IF m = tune_orchestra
                               THEN <<CONDUCTOR_ALLHOSTS_PLAYER_NAME>>
                               ELSE f.player_names[m]],
     local_measure      |-> [m \in MeasureNames |-> FALSE],
     m_state            |-> [m \in MeasureNames |-> "PENDING"],
     m_finished         |-> [m \in MeasureNames |-> FALSE],
     m_status           |-> [m \in MeasureNames |-> [k \in StatusKeys |-> NO_STATUS]],
     celery_group_tasks |-> [m \in MeasureNames |-> <<>>],
     allhosts           |-> <<>>,
     create_hosts       |-> f.create_hosts,
     state              |-> "PENDING",
     finished           |-> FALSE,
     started_at         |-> FALSE,
     finished_at        |-> FALSE,
     task_map           |-> {}]

\* player.py Player.hostnames of a Player of the Score
Hostnames(sc, p) ==
    IF p = CONDUCTOR_ALLHOSTS_PLAYER_NAME THEN sc.allhosts ELSE user_hostnames[p]

(***************************************************************************)
(* Evaluation of the Measures and of the Score                             *)
(***************************************************************************)

\* measure.py Measure.get_task_status: celery_group_status of every entry of
\* celery_group_tasks, in the dict's order; cel maps a task id to its Celery record
get_task_status(sc, cel, m) ==
    [i \in 1..Len(sc.celery_group_tasks[m]) |->
       celery_group_status(
         [j \in 1..Len(sc.celery_group_tasks[m][i].tasks) |->
            cel[sc.celery_group_tasks[m][i].tasks[j]].state])]

\* measure.py Measure.evaluate_state(score) applied to Measure m: the result is the
\* Score with m's state, status and finished updated, and raised = TRUE (nothing
\* updated) when celery_group_status raised
Measure_evaluate(sc, cel, m) ==
    LET newstatus(tstats) ==
          [k \in StatusKeys |->
             IF \E i \in 1..Len(tstats) :
                  sc.celery_group_tasks[m][i].player = k /\ tstats[i].status
             THEN TASK_FAILED
             ELSE sc.m_status[m][k]]
        Result(tstats, r) ==
          IF \E i \in 1..Len(tstats) : tstats[i].raised
          THEN [score |-> sc, raised |-> TRUE]
          ELSE [score |-> [sc EXCEPT !.m_state[m] = r.state,
                                     !.m_finished[m] = r.finished,
                                     !.m_status[m] = newstatus(tstats)],
                raised |-> FALSE]
        Evaluate(tstats) ==
          Apply(Measure_evaluate_state(sc.m_state[m], Len(sc.player_names[m]), tstats),
                LAMBDA r : Result(tstats, r))
    IN Apply(get_task_status(sc, cel, m), Evaluate)

\* the first loop of Score.evaluate_state: "for m in self.measures: if not m.finished:
\* m.evaluate_state(self)"; it stops at the first Measure whose evaluation raises
RECURSIVE EvaluateMeasures(_, _, _)
EvaluateMeasures(sc, cel, ms) ==
    IF ms = <<>>
    THEN [score |-> sc, raised |-> FALSE]
    ELSE IF sc.m_finished[Head(ms)]
         THEN EvaluateMeasures(sc, cel, Tail(ms))
         ELSE LET Rest(r) == IF r.raised THEN r ELSE EvaluateMeasures(r.score, cel, Tail(ms))
              IN Apply(Measure_evaluate(sc, cel, Head(ms)), Rest)

\* score.py Score.evaluate_state()
Score_evaluate_state(sc, cel) ==
    LET Aggregate(s) ==
          Score_aggregate(
            s.state, s.finished,
            [i \in 1..Len(s.measures) |->
               [state |-> s.m_state[s.measures[i]],
                finished |-> s.m_finished[s.measures[i]]]])
        Result(s, a) ==
          [score |-> [s EXCEPT !.state = a.state,
                               !.finished = a.finished,
                               !.finished_at =
                                  IF \A i \in 1..Len(s.measures) :
                                       s.m_finished[s.measures[i]]
                                  THEN TRUE ELSE @],
           raised |-> FALSE]
        Second(e) ==
          IF e.raised THEN e
          ELSE Apply(Aggregate(e.score), LAMBDA a : Result(e.score, a))
    IN Apply(EvaluateMeasures(sc, cel, sc.measures), Second)

(***************************************************************************)
(* The scheduler step (score.py Score.smart_queue, Score.queue_measure)    *)
(***************************************************************************)

\* A mutant of dependency_unfinished: a dependency is never seen as finished.
dependency_unfinished_always(sc, dep_name) ==
    TRUE

\* A mutant of dependency_unfinished: an unfinished dependency is not noticed.
dependency_unfinished_never(sc, dep_name) ==
    FALSE

\* "if not depm.finished" of smart_queue
dependency_unfinished(sc, dep_name) ==
    ~sc.m_finished[dep_name]

\* A mutant of dependency_failed: dependency_proof is not looked at.
dependency_failed_ignores_proof(sc, m, dep_name) ==
    sc.m_state[dep_name] = "FAILURE"

\* "if depm.state == TaskState.FAILURE and not m.dependency_proof" of smart_queue
dependency_failed(sc, m, dep_name) ==
    sc.m_state[dep_name] = "FAILURE" /\ ~sc.dependency_proof[m]

\* the loop "for dep_name in m.depends_on" of smart_queue for Measure m: acc holds the
\* Score, ready_to_queue and whether m was appended to dependency_failed
RECURSIVE DependencyLoop(_, _, _)
DependencyLoop(acc, m, deps) ==
    IF deps = <<>>
    THEN acc
    ELSE LET dep_name == Head(deps)
             NotFinished(a) ==
               IF dependency_unfinished(a.score, dep_name)
               THEN [a EXCEPT !.ready_to_queue = FALSE,
                              !.score.m_state[m] = "DEFERRED"]
               ELSE a
             Failed(a) ==
               IF dependency_failed(a.score, m, dep_name)
               THEN [a EXCEPT !.ready_to_queue = FALSE,
                              !.score.m_state[m] = "FAILURE",
                              !.score.m_finished[m] = TRUE,
                              !.score.m_status[m]["all"] = DEPENDENCY_FAILED,
                              !.failed = TRUE]
               ELSE a
             Rest(a) == DependencyLoop(a, m, Tail(deps))
         IN Apply(Apply(Apply(acc, NotFinished), Failed), Rest)

\* the loop "for m in unqueued_measures" of smart_queue: acc holds the Score, to_queue
\* ("" for None) and the list dependency_failed
RECURSIVE UnqueuedLoop(_, _)
UnqueuedLoop(acc, ms) ==
    IF ms = <<>>
    THEN acc
    ELSE LET m == Head(ms)
         IN IF acc.score.depends_on[m] = <<>>
            THEN [acc EXCEPT !.to_queue = m]
            ELSE LET After(d) ==
                       [score |-> d.score,
                        to_queue |-> acc.to_queue,
                        dependency_failed |->
                           IF d.failed THEN Append(acc.dependency_failed, m)
                           ELSE acc.dependency_failed]
                     Continue(ready_to_queue, acc2) ==
                       IF ready_to_queue
                       THEN [acc2 EXCEPT !.to_queue = m]
                       ELSE UnqueuedLoop(acc2, Tail(ms))
                     Checked(d) ==
                       Apply(After(d), LAMBDA acc2 : Continue(d.ready_to_queue, acc2))
                 IN Apply(DependencyLoop(
                            [score |-> acc.score, ready_to_queue |-> TRUE,
                             failed |-> FALSE],
                            m, acc.score.depends_on[m]),
                          Checked)

\* score.py Score.queue_measure(measure): the state is QUEUED and one play_the_player
\* task per player is handed to the event loop; the result is the Score and the
\* tasks created
queue_measure(sc, m) ==
    [score |-> [sc EXCEPT !.m_state[m] = "QUEUED"],
     futures |-> [i \in 1..Len(sc.player_names[m]) |->
                    [measure |-> m, player |-> sc.player_names[m][i]]]]

RECURSIVE RemoveAll(_, _)
\* "for to_remove in dependency_failed: if to_remove in unqueued: unqueued.remove"
RemoveAll(seq, rem) ==
    IF rem = <<>> THEN seq
    ELSE LET Rest(r) == RemoveAll(r, Tail(rem))
         IN Apply(IF Head(rem) \in SeqToSet(seq) THEN RemoveFirst(seq, Head(rem)) ELSE seq,
                  Rest)

\* A mutant of smart_queue: the Measure queued stays in unqueued_measures.
smart_queue_keeps_queued(sc, unqueued_measures) ==
    LET Queued(u) ==
          IF u.to_queue # ""
          THEN queue_measure(u.score, u.to_queue)
          ELSE [score |-> u.score, futures |-> <<>>]
        Result(u, q) ==
          [score    |-> q.score,
           unqueued |-> RemoveAll(unqueued_measures, u.dependency_failed),
           to_queue |-> u.to_queue,
           futures  |-> q.futures]
        Step(u) == Apply(Queued(u), LAMBDA q : Result(u, q))
    IN Apply(UnqueuedLoop([score |-> sc, to_queue |-> "", dependency_failed |-> <<>>],
                          unqueued_measures),
             Step)

\* score.py Score.smart_queue(unqueued_measures): the Score after the step, the list
\* unqueued_measures after it, the Measure returned ("" for None) and the
\* play_the_player tasks created
smart_queue(sc, unqueued_measures) ==
    LET Queued(u) ==
          IF u.to_queue # ""
          THEN queue_measure(u.score, u.to_queue)
          ELSE [score |-> u.score, futures |-> <<>>]
        Removed(u) ==
          IF u.to_queue # "" /\ u.to_queue \in SeqToSet(unqueued_measures)
          THEN RemoveFirst(unqueued_measures, u.to_queue)
          ELSE unqueued_measures
        Result(u, q) ==
          [score    |-> q.score,
           unqueued |-> RemoveAll(Removed(u), u.dependency_failed),
           to_queue |-> u.to_queue,
           futures  |-> q.futures]
        Step(u) == Apply(Queued(u), LAMBDA q : Result(u, q))
    IN Apply(UnqueuedLoop([score |-> sc, to_queue |-> "", dependency_failed |-> <<>>],
                          unqueued_measures),
             Step)

(***************************************************************************)
(* Dispatch (player.py Player.enqueue, score.py Score.play_the_player)     *)
(***************************************************************************)

\* A mutant of clear_finished_celery_task_ids: the ids of started tasks are dropped
\* with the finished ones.
clear_finished_drops_started(ids, cel) ==
    {t \in ids : cel[t].state = "PENDING"}

\* host.py Host.clear_finished_celery_task_ids: ids whose task is SUCCESS or FAILURE
\* are dropped from the host's list
clear_finished_celery_task_ids(ids, cel) ==
    {t \in ids : cel[t].state \notin {"SUCCESS", "FAILURE"}}

\* the loop "for hostname in self.hostnames" of Player.enqueue: acc holds the Score's
\* task_map, the Host registry, Celery's records, the signatures built so far and
\* ok = FALSE once the loop returned failure
RECURSIVE EnqueueLoop(_, _, _, _, _)
EnqueueLoop(acc, local, m, p, hostnames) ==
    IF hostnames = <<>> \/ ~acc.ok
    THEN acc
    ELSE LET hostname == Head(hostnames)
             host == acc.hosts[hostname]
             id == Len(acc.celery) + 1
             Rest(a) == EnqueueLoop(a, local, m, p, Tail(hostnames))
         IN IF ~host.present
            THEN [acc EXCEPT !.ok = FALSE]
            ELSE IF ~local /\ host.pending_create
            THEN [acc EXCEPT !.ok = FALSE]
            ELSE Apply(
                   [task_map   |-> acc.task_map \cup
                                     {[id |-> id, measure_name |-> m,
                                       player_name |-> p, host_name |-> hostname]},
                    hosts      |-> IF local THEN acc.hosts
                                   ELSE [acc.hosts EXCEPT ![hostname].celery_task_ids =
                                           clear_finished_celery_task_ids(@, acc.celery)
                                             \cup {id}],
                    celery     |-> Append(acc.celery,
                                          [state |-> "PENDING", submitted |-> FALSE]),
                    signatures |-> Append(acc.signatures, id),
                    ok         |-> TRUE],
                   Rest)

\* A mutant of enqueue: the signatures built before the failure are submitted.
enqueue_partial_dispatch(sc, hs, cel, m, p) ==
    LET apply_async(r) ==
          [r EXCEPT !.celery =
             [i \in 1..Len(r.celery) |->
                IF i \in SeqToSet(r.signatures)
                THEN [r.celery[i] EXCEPT !.submitted = TRUE]
                ELSE r.celery[i]]]
    IN Apply(EnqueueLoop([task_map |-> sc.task_map, hosts |-> hs, celery |-> cel,
                          signatures |-> <<>>, ok |-> TRUE],
                         sc.local_measure[m], m, p, Hostnames(sc, p)),
             apply_async)

\* player.py Player.enqueue(score, measure, ...): on success the group is submitted
\* (task_group.apply_async) and its tasks are PENDING at the broker
enqueue(sc, hs, cel, m, p) ==
    LET apply_async(r) ==
          [r EXCEPT !.celery =
             [i \in 1..Len(r.celery) |->
                IF r.ok /\ i \in SeqToSet(r.signatures)
                THEN [r.celery[i] EXCEPT !.submitted = TRUE]
                ELSE r.celery[i]]]
    IN Apply(EnqueueLoop([task_map |-> sc.task_map, hosts |-> hs, celery |-> cel,
                          signatures |-> <<>>, ok |-> TRUE],
                         sc.local_measure[m], m, p, Hostnames(sc, p)),
             apply_async)

\* "measure.celery_group_tasks[player.name] = group_task": a dict assignment, which
\* keeps the place of a key already there
SetGroup(groups, p, sigs) ==
    IF \E i \in 1..Len(groups) : groups[i].player = p
    THEN [i \in 1..Len(groups) |->
            IF groups[i].player = p THEN [player |-> p, tasks |-> sigs] ELSE groups[i]]
    ELSE Append(groups, [player |-> p, tasks |-> sigs])

\* score.py Score.play_the_player(measure, player) for a Measure with an integer
\* start_delay and no special arguments
play_the_player(sc, hs, cel, m, p) ==
    LET Result(e) ==
          [score  |-> IF e.ok
                      THEN [sc EXCEPT !.task_map = e.task_map,
                                      !.celery_group_tasks[m] = SetGroup(@, p, e.signatures)]
                      ELSE [sc EXCEPT !.task_map = e.task_map,
                                      !.m_state[m] = "FAILURE",
                                      !.m_status[m][p] = FAILED_TO_PLAY],
           hosts  |-> e.hosts,
           celery |-> e.celery]
    IN Apply(enqueue(sc, hs, cel, m, p), Result)

(***************************************************************************)
(* Roll call (score.py Score.validate_create_host_mappings)                *)
(***************************************************************************)

\* the loop "for host_name in p.hostnames" of validate_create_host_mappings, for Hosts
\* of the default image and control method; backend is the set of hosts the control
\* backend reports as existing (host_control_class.host_exists)
RECURSIVE ValidateHosts(_, _, _, _)
ValidateHosts(acc, create_hosts, backend, hostnames) ==
    IF hostnames = <<>> \/ acc.raised
    THEN acc
    ELSE LET h == Head(hostnames)
             host == acc.hosts[h]
             next == IF host.present /\ host.tuning
                     THEN [acc EXCEPT !.success = FALSE]
                     ELSE IF h \in backend
                     THEN [acc EXCEPT !.hosts[h].present = TRUE]
                     ELSE IF ~create_hosts
                     THEN [acc EXCEPT !.success = FALSE]
                     ELSE IF ~host.present
                     THEN [acc EXCEPT !.raised = TRUE]
                     ELSE [acc EXCEPT !.hosts[h].pending_create = TRUE]
             Rest(a) == ValidateHosts(a, create_hosts, backend, Tail(hostnames))
         IN Apply(next, Rest)

\* the loop "for p in self.players.values()" around it
RECURSIVE ValidatePlayers(_, _, _, _)
ValidatePlayers(acc, create_hosts, backend, players) ==
    IF players = <<>>
    THEN acc
    ELSE LET Rest(a) == ValidatePlayers(a, create_hosts, backend, Tail(players))
         IN Apply(ValidateHosts(acc, create_hosts, backend, user_hostnames[Head(players)]),
                  Rest)

\* score.py Score.validate_create_host_mappings(): every user Player has as many
\* hostnames as its scale, so the length checks pass and map_missing_hosts adds
\* nothing; raised = TRUE is the KeyError of "hosts[host_name].pending_create = True"
\* for a host that is not in the registry
validate_create_host_mappings(sc, hs, backend) ==
    ValidatePlayers([hosts |-> hs, success |-> TRUE, raised |-> FALSE],
                    sc.create_hosts, backend, sc.players)

(***************************************************************************)
(* Stored data (score.py Score.store_results, Score.fetch_stored_data)     *)
(*                                                                         *)
(* A Python value is a record tagged with its type: None, an int, a str (a *)
(* sequence of characters), a list (a sequence of values) or a dict (a     *)
(* sequence of key/value entries in insertion order, keys distinct).       *)
(***************************************************************************)

PyNone ==
    [t |-> "NoneType"]

PyInt(n) ==
    [t |-> "int", n |-> n]

PyStr(chars) ==
    [t |-> "str", s |-> chars]

PyList(items) ==
    [t |-> "list", items |-> items]

PyDict(entries) ==
    [t |-> "dict", entries |-> entries]

\* "key in d" for a dict's entries
DictHas(entries, key) ==
    \E i \in 1..Len(entries) : entries[i].k = key

\* "d[key]" for a key of the dict
DictGet(entries, key) ==
    entries[CHOOSE i \in 1..Len(entries) : entries[i].k = key].v

\* "d[key] = val": a key already there keeps its place
DictSet(entries, key, val) ==
    IF DictHas(entries, key)
    THEN [i \in 1..Len(entries) |->
            IF entries[i].k = key THEN [k |-> key, v |-> val] ELSE entries[i]]
    ELSE Append(entries, [k |-> key, v |-> val])

\* "iter(data)" does not raise TypeError
Iterable(data) ==
    data.t \in {"str", "list", "dict"}

\* truth value of a Python value
Truthy(data) ==
    IF data.t = "NoneType" THEN FALSE
    ELSE IF data.t = "int" THEN data.n # 0
    ELSE IF data.t = "str" THEN data.s # <<>>
    ELSE IF data.t = "list" THEN data.items # <<>>
    ELSE data.entries # <<>>

\* "sub in text" for two strings
IsSubstring(sub, text) ==
    \E i \in 0..(Len(text) - Len(sub)) : SubSeq(text, i + 1, i + Len(sub)) = sub

\* "key in data" for a str key and an iterable value: a key of a dict, an element
\* of a list (a str equals only a str), a substring of a str
Contains(key, data) ==
    IF data.t = "dict" THEN DictHas(data.entries, key)
    ELSE IF data.t = "list" THEN \E i \in 1..Len(data.items) : data.items[i] = PyStr(key)
    ELSE IsSubstring(key, data.s)

Digits ==
    <<"0", "1", "2", "3", "4", "5", "6", "7", "8", "9">>

\* str.isdigit()
isdigit(chars) ==
    chars # <<>> /\ \A i \in 1..Len(chars) : chars[i] \in SeqToSet(Digits)

RECURSIVE int(_)
\* int(chars) for a string of digits
int(chars) ==
    IF chars = <<>> THEN 0
    ELSE 10 * int(SubSeq(chars, 1, Len(chars) - 1)) + ListIndex(Digits, chars[Len(chars)])

\* the four-tuple fetch_stored_data returns, without the message; raised = TRUE is
\* an exception that leaves fetch_stored_data
Fetched(success, code, data) ==
    [raised |-> FALSE, success |-> success, code |-> code, data |-> data]

FetchRaised ==
    [raised |-> TRUE]

\* A mutant of Subscript: the position is counted from the end of the container.
Subscript_from_end(data, key) ==
    IF Contains(key, data)
    THEN IF data.t = "dict" THEN Fetched(TRUE, 200, DictGet(data.entries, key))
         ELSE FetchRaised
    ELSE IF data.t = "list"
    THEN IF int(key) < Len(data.items)
         THEN Fetched(TRUE, 200, data.items[Len(data.items) - int(key)])
         ELSE Fetched(FALSE, 400, PyNone)
    ELSE IF int(key) < Len(data.entries)
         THEN Fetched(TRUE, 200, data.entries[Len(data.entries) - int(key)].v)
         ELSE Fetched(FALSE, 400, PyNone)

\* "if key in data: data = data[key]  else: key = int(key); data = data[key] or
\* list(data.values())[key]" of fetch_stored_data, for data a str, list or dict:
\* indexing a list or a str with a str raises TypeError; IndexError gives 400
Subscript(data, key) ==
    IF Contains(key, data)
    THEN IF data.t = "dict" THEN Fetched(TRUE, 200, DictGet(data.entries, key))
         ELSE FetchRaised
    ELSE IF data.t = "list"
    THEN IF int(key) < Len(data.items)
         THEN Fetched(TRUE, 200, data.items[int(key) + 1])
         ELSE Fetched(FALSE, 400, PyNone)
    ELSE IF int(key) < Len(data.entries)
         THEN Fetched(TRUE, 200, data.entries[int(key) + 1].v)
         ELSE Fetched(FALSE, 400, PyNone)

\* "subsubkey in data or (subsubkey.isdigit() and type(data) in [list, dict])"
Selects(data, key) ==
    Contains(key, data) \/ (isdigit(key) /\ data.t \in {"list", "dict"})

\* fetch_stored_data from "stored data value level" on: data is the value selected by
\* subsubkey
FetchValueLevel(data, subsubsubkey) ==
    IF subsubsubkey = <<>> THEN Fetched(TRUE, 200, data)
    ELSE IF ~Iterable(data) THEN Fetched(FALSE, 400, PyNone)
    ELSE IF Selects(data, subsubsubkey) THEN Subscript(data, subsubsubkey)
    ELSE Fetched(FALSE, 400, PyNone)

\* fetch_stored_data from "check if iterable" on: data is stored_data[key][subkey]
FetchHostLevel(data, subsubkey, subsubsubkey) ==
    LET Below(r) ==
          IF r.raised \/ ~r.success THEN r ELSE FetchValueLevel(r.data, subsubsubkey)
    IN IF subsubkey = <<>> THEN Fetched(TRUE, 200, data)
       ELSE IF ~Iterable(data) THEN Fetched(FALSE, 400, PyNone)
       ELSE IF Selects(data, subsubkey) THEN Apply(Subscript(data, subsubkey), Below)
       ELSE Fetched(FALSE, 400, PyNone)

\* fetch_stored_data from "player name level" on: data is stored_data[key]; "subkey in
\* data" raises TypeError when data is not iterable, and so does data[subkey] when
\* data is a list or a str
FetchPlayerLevel(data, subkey, subsubkey, subsubsubkey) ==
    IF subkey = <<>> THEN Fetched(TRUE, 200, data)
    ELSE IF ~Iterable(data) THEN FetchRaised
    ELSE IF ~Contains(subkey, data) THEN Fetched(FALSE, 400, PyNone)
    ELSE IF data.t # "dict" THEN FetchRaised
    ELSE FetchHostLevel(DictGet(data.entries, subkey), subsubkey, subsubsubkey)

\* score.py Score.fetch_stored_data(key, subkey, subsubkey, subsubsubkey); stored is
\* self.stored_data, an absent argument is the empty string
fetch_stored_data(stored, key, subkey, subsubkey, subsubsubkey) ==
    IF key = <<>> THEN Fetched(TRUE, 200, stored)
    ELSE IF DictHas(stored.entries, key)
    THEN FetchPlayerLevel(DictGet(stored.entries, key), subkey, subsubkey, subsubsubkey)
    ELSE Fetched(FALSE, 400, PyNone)

\* score.py Score.store_results(measure, player_name, results) with key =
\* measure.store_as; player_name = <<>> is the store_singleton call. raised = TRUE is
\* the TypeError of "player_name in ..." or of the item assignment when
\* stored_data[key] is not a dict
Score_store_results(stored, key, player_name, results) ==
    LET Store(entries) ==
          IF player_name # <<>>
          THEN IF DictGet(entries, key).t # "dict"
               THEN [stored |-> PyDict(entries), raised |-> TRUE]
               ELSE [stored |-> PyDict(DictSet(entries, key,
                                  PyDict(DictSet(DictGet(entries, key).entries,
                                                 player_name, results)))),
                     raised |-> FALSE]
          ELSE [stored |-> PyDict(DictSet(entries, key, results)), raised |-> FALSE]
    IN Apply(IF DictHas(stored.entries, key) THEN stored.entries
             ELSE DictSet(stored.entries, key, PyDict(<<>>)),
             Store)

(***************************************************************************)
(* State of the conductor                                                  *)
(***************************************************************************)

VARIABLES
    score_file,   \* the scenario file of the Score's name
    score,        \* scores[name]: the Score object registered under the name
    hosts,        \* shared/config.py hosts: the Host registry
    backend,      \* the hosts that exist according to the host-control backend
    celery,       \* the task-execution substrate: task id -> state, submitted
    loops,        \* the play() coroutines started for scores[name]
    futures,      \* play_the_player tasks handed to the event loop, not yet run
    to_queue,     \* what the last call of smart_queue returned ("" for None)
    orphans,      \* running play() loops of Score objects a forced reload replaced
    budget,       \* events left: runs started, forced reloads, revoked tasks
    agg,          \* an aggregation: its level, its inputs and, once applied, its result
    store,        \* a Score's stored_data with one store and one fetch request
    call          \* one call of a function of the conductor: its arguments and result

schedVars ==
    <<score_file, score, hosts, backend, celery, loops, futures, to_queue, orphans,
      budget>>

pureVars ==
    <<agg, store, call>>

\* bounds of the model
MaxLoops   == 2
MaxReloads == 1
MaxRevoked == 1

\* host.py Host.__init__ for a host of the registry
NewHost(present) ==
    [present |-> present, pending_create |-> FALSE, tuning |-> FALSE,
     celery_task_ids |-> {}]

\* no aggregation and no store request under way
NoAggregation ==
    [level |-> "none", done |-> FALSE]

NoStore ==
    [phase |-> "none"]

NoCall ==
    [fn |-> "none", done |-> FALSE]

\* the scenario files of the specification with the request handlers
ApiScoreFiles ==
    {[measures         |-> <<"A">>,
      players          |-> <<"p1">>,
      depends_on       |-> [m \in {"A", "B"} |-> <<>>],
      dependency_proof |-> [m \in {"A", "B"} |-> FALSE],
      player_names     |-> [m \in {"A", "B"} |-> <<"p1">>],
      create_hosts     |-> TRUE]}

\* the conductor after the scenario file is loaded and the hosts are registered
InitApi ==
    /\ score_file \in ApiScoreFiles
    /\ score = NewScore(score_file)
    /\ hosts = [h \in HostNames |-> NewHost(TRUE)]
    /\ backend \in {{}, {"h1"}}
    /\ celery = <<>>
    /\ loops = <<>>
    /\ futures = <<>>
    /\ to_queue = ""
    /\ orphans = 0
    /\ budget = [cues |-> MaxLoops, reloads |-> MaxReloads, revokes |-> 0]
    /\ agg = NoAggregation
    /\ store = NoStore
    /\ call = NoCall

(***************************************************************************)
(* The play() coroutine (score.py Score.play)                              *)
(***************************************************************************)

\* score.py Score.get_all_hosts: the hosts of the user Players that are in the registry
get_all_hosts(sc, hs) ==
    {h \in HostNames :
       hs[h].present /\ \E i \in 1..Len(sc.players) :
                          h \in SeqToSet(user_hostnames[sc.players[i]])}

\* the allhosts Player's hostnames, "[h.name for h in all_hosts]", in one order
AllHostsList(sc, hs) ==
    (IF "h1" \in get_all_hosts(sc, hs) THEN <<"h1">> ELSE <<>>)
      \o (IF "h2" \in get_all_hosts(sc, hs) THEN <<"h2">> ELSE <<>>)

\* score.py Score.play() up to "unqueued_measures = copy.copy(self.measures)"
play_setup(sc, hs) ==
    [sc EXCEPT
       !.measures = IF tune_orchestra \in SeqToSet(@) THEN @ ELSE <<tune_orchestra>> \o @,
       !.local_measure[tune_orchestra] =
          IF tune_orchestra \in SeqToSet(sc.measures) THEN @ ELSE TRUE,
       !.depends_on = [m \in MeasureNames |->
                         IF m # tune_orchestra /\ tune_orchestra \notin SeqToSet(@[m])
                         THEN <<tune_orchestra>> \o @[m] ELSE @[m]],
       !.allhosts = AllHostsList(sc, hs),
       !.state = "STARTED",
       !.started_at = TRUE]

\* A mutant of wrap_future_score: the exception leaves the Score as it is.
wrap_future_score_unhandled(sc) ==
    sc

\* util.py wrap_future, the except branch with score_or_measure = the Score
wrap_future_score(sc) ==
    [sc EXCEPT !.state = "FAILURE", !.finished = TRUE]

\* one pass of "while True" of play() for loop i, from evaluate_state() to the sleep
Iteration(i, sc, unqueued) ==
    \E e \in {Score_evaluate_state(sc, celery)} :
    \E q \in {smart_queue(e.score, unqueued)} :
       IF e.raised
       THEN /\ score' = wrap_future_score(e.score)
            /\ loops' = [loops EXCEPT ![i] = [pc |-> "raised", unqueued |-> unqueued]]
            /\ UNCHANGED <<futures, to_queue>>
       ELSE IF e.score.finished
       THEN /\ score' = e.score
            /\ loops' = [loops EXCEPT ![i] = [pc |-> "done", unqueued |-> unqueued]]
            /\ UNCHANGED <<futures, to_queue>>
       ELSE /\ score' = q.score
            /\ loops' = [loops EXCEPT ![i] = [pc |-> "sleeping", unqueued |-> q.unqueued]]
            /\ futures' = futures \o q.futures
            /\ to_queue' = q.to_queue

\* the play() task that cue_the_music created runs: the setup and the first pass
PlayBegin(i) ==
    /\ loops[i].pc = "scheduled"
    /\ \E sc \in {play_setup(score, hosts)} : Iteration(i, sc, sc.measures)
    /\ UNCHANGED <<score_file, hosts, backend, celery, orphans, budget>>
    /\ UNCHANGED pureVars

\* play() wakes from "await asyncio.sleep(1)"; the play_the_player tasks created before
\* the sleep have run by then
PlayIterate(i) ==
    /\ loops[i].pc = "sleeping"
    /\ futures = <<>>
    /\ Iteration(i, score, loops[i].unqueued)
    /\ UNCHANGED <<score_file, hosts, backend, celery, orphans, budget>>
    /\ UNCHANGED pureVars

\* the event loop runs the oldest play_the_player task
PlayThePlayer ==
    /\ futures # <<>>
    /\ \E r \in {play_the_player(score, hosts, celery,
                                   Head(futures).measure, Head(futures).player)} :
          /\ score' = r.score
          /\ hosts' = r.hosts
          /\ celery' = r.celery
    /\ futures' = Tail(futures)
    /\ UNCHANGED <<score_file, backend, loops, to_queue, orphans, budget>>
    /\ UNCHANGED pureVars

(***************************************************************************)
(* Request handlers (api_conductor.py)                                     *)
(***************************************************************************)

\* "if score.started_at and not score.finished" of cue_the_music and roll_call
AlreadyPlaying(sc) ==
    sc.started_at /\ ~sc.finished

\* api_conductor.py cue_the_music(request): "score already playing", a failed roll
\* call and the KeyError of the roll call leave no play() task behind
CueTheMusic ==
    /\ budget.cues > 0
    /\ IF AlreadyPlaying(score)
       THEN UNCHANGED <<hosts, loops, budget>>
       ELSE \E v \in {validate_create_host_mappings(score, hosts, backend)} :
               /\ hosts' = v.hosts
               /\ IF v.raised \/ ~v.success
                  THEN UNCHANGED <<loops, budget>>
                  ELSE /\ loops' = Append(loops, [pc |-> "scheduled", unqueued |-> <<>>])
                       /\ budget' = [budget EXCEPT !.cues = @ - 1]
    /\ UNCHANGED <<score_file, score, backend, celery, futures, to_queue, orphans>>
    /\ UNCHANGED pureVars

\* api_conductor.py roll_call(request), a GET request
RollCall ==
    /\ IF AlreadyPlaying(score)
       THEN UNCHANGED hosts
       ELSE hosts' = validate_create_host_mappings(score, hosts, backend).hosts
    /\ UNCHANGED <<score_file, score, backend, celery, loops, futures, to_queue, orphans,
                   budget>>
    /\ UNCHANGED pureVars

\* the play() loops of the registered Score object that have begun and not ended
RunningLoops ==
    {i \in 1..Len(loops) : loops[i].pc = "sleeping"}

\* api_conductor.py api_read_score(request) with "force": the registered Score is
\* deleted and the file is loaded into a new Score object. The play() loops of the old
\* object keep running on it; the model keeps their number only.
ApiReadScoreForce ==
    /\ budget.reloads > 0
    /\ budget' = [budget EXCEPT !.reloads = @ - 1]
    /\ score' = NewScore(score_file)
    /\ orphans' = orphans + Cardinality(RunningLoops)
    /\ loops' = <<>>
    /\ futures' = <<>>
    /\ to_queue' = ""
    /\ UNCHANGED <<score_file, hosts, backend, celery>>
    /\ UNCHANGED pureVars

\* a play() loop of a replaced Score object ends
OrphanEnds ==
    /\ orphans > 0
    /\ orphans' = orphans - 1
    /\ UNCHANGED <<score_file, score, hosts, backend, celery, loops, futures, to_queue,
                   budget>>
    /\ UNCHANGED pureVars

(***************************************************************************)
(* The task-execution substrate (Celery workers)                           *)
(***************************************************************************)

\* the states a submitted task may report next (celeryconfig.py task_track_started);
\* REVOKED is a state of Celery that is no TaskState
NextTaskStates(st) ==
    IF st = "PENDING" THEN {"STARTED", "REVOKED"}
    ELSE IF st = "STARTED" THEN {"SUCCESS", "FAILURE"}
    ELSE {}

\* a worker reports a new state of task t
TaskStep(t, st) ==
    /\ celery[t].submitted
    /\ st \in NextTaskStates(celery[t].state)
    /\ st = "REVOKED" => budget.revokes > 0
    /\ budget' = IF st = "REVOKED" THEN [budget EXCEPT !.revokes = @ - 1] ELSE budget
    /\ celery' = [celery EXCEPT ![t].state = st]
    /\ UNCHANGED <<score_file, score, hosts, backend, loops, futures, to_queue, orphans>>
    /\ UNCHANGED pureVars

(***************************************************************************)
(* Specifications                                                          *)
(***************************************************************************)

vars ==
    <<score_file, score, hosts, backend, celery, loops, futures, to_queue, orphans,
      budget, agg, store, call>>

\* One run of play(): cue_the_music has validated the host mappings of a freshly
\* loaded Score and has scheduled play().
InitRun(files, revokes) ==
    /\ score_file \in files
    /\ score = NewScore(score_file)
    /\ backend \in {{"h1"}, {"h1", "h2"}}
    /\ \E v \in {validate_create_host_mappings(
                    score, [h \in HostNames |-> NewHost(TRUE)], backend)} :
          /\ v.success /\ ~v.raised
          /\ hosts = v.hosts
    /\ celery = <<>>
    /\ loops = <<[pc |-> "scheduled", unqueued |-> <<>>]>>
    /\ futures = <<>>
    /\ to_queue = ""
    /\ orphans = 0
    /\ budget = [cues |-> 0, reloads |-> 0, revokes |-> revokes]
    /\ agg = NoAggregation
    /\ store = NoStore
    /\ call = NoCall

Init ==
    InitRun(ScoreFiles, MaxRevoked)

Next ==
    \/ \E i \in 1..Len(loops) : PlayBegin(i)
    \/ \E i \in 1..Len(loops) : PlayIterate(i)
    \/ PlayThePlayer
    \/ \E t \in 1..Len(celery), st \in TaskState \cup {"REVOKED"} : TaskStep(t, st)

Spec ==
    Init /\ [][Next]_vars

\* One run of play() under fair scheduling: the event loop runs every task that is
\* ready (play() after its sleep, the play_the_player tasks) and the workers take up
\* every task submitted to them.
\* the runs in which no task is revoked
InitFair ==
    InitRun(ScoreFiles, 0)

SpecFair ==
    /\ InitFair
    /\ [][Next]_vars
    /\ WF_vars(\E i \in 1..Len(loops) : PlayBegin(i) \/ PlayIterate(i))
    /\ WF_vars(PlayThePlayer)
    /\ WF_vars(\E t \in 1..Len(celery), st \in TaskState \cup {"REVOKED"} : TaskStep(t, st))

(***************************************************************************)
(* Properties of one run of play()                                         *)
(***************************************************************************)

\* the Measures of the Score and the names in a Measure's depends_on
Measures ==
    SeqToSet(score.measures)

Dependencies(m) ==
    SeqToSet(score.depends_on[m])

\* a task of Measure m is recorded in task_map
Dispatched(m) ==
    \E e \in score.task_map : e.measure_name = m

\* Measure m has been queued: it is QUEUED, one of its play_the_player tasks waits in
\* the event loop, or a task of it was created
Queued(m) ==
    \/ score.m_state[m] = "QUEUED"
    \/ \E i \in 1..Len(futures) : futures[i].measure = m
    \/ Dispatched(m)

\* the play() loop has left "while True" through the break
RunCompleted ==
    \E i \in 1..Len(loops) : loops[i].pc = "done"

\* the play() loop has ended, by the break or by an exception
LoopEnded ==
    \A i \in 1..Len(loops) : loops[i].pc \in {"done", "raised"}

\* C1: in a run of play(), a Measure is queued (set QUEUED and handed to its Players)
\* only when every Measure named in its depends_on has finished = true; with
\* [A(depends_on=[]), B(depends_on=[A])], B is never queued before A.finished is true.
C1_QueuedOnlyAfterDependencies ==
    \A m \in Measures : Queued(m) => \A d \in Dependencies(m) : score.m_finished[d]

\* C1: B, which depends on A, is queued and A has finished
C1_Witness ==
    /\ score.m_state["B"] = "QUEUED"
    /\ "A" \in Dependencies("B")
    /\ score.m_finished["A"]

\* C2 as claimed: once the run has completed, every Measure without dependency_proof
\* that names a dependency which finished with FAILURE is FAILURE and finished, and
\* no task of it is recorded in task_map.
C2_DependencyFailureFails ==
    RunCompleted =>
      \A m \in Measures :
        (/\ ~score.dependency_proof[m]
         /\ \E d \in Dependencies(m) : score.m_finished[d] /\ score.m_state[d] = "FAILURE")
        => /\ score.m_state[m] = "FAILURE"
           /\ score.m_finished[m]
           /\ ~Dispatched(m)

\* C3 as claimed: a task of a user Measure is recorded for a Host only after
\* tune_orchestra has finished with state SUCCESS.
C3_NoUserTaskBeforeTuned ==
    \A e \in score.task_map :
      e.measure_name # tune_orchestra
      => score.m_finished[tune_orchestra] /\ score.m_state[tune_orchestra] = "SUCCESS"

\* C7: when a pass of the play() loop raises, the Score is left with state FAILURE and
\* finished = true; a loop that has ended never leaves the Score with finished = false.
C7_ExceptionFinishesScore ==
    \A i \in 1..Len(loops) :
      /\ loops[i].pc = "raised" => score.state = "FAILURE" /\ score.finished
      /\ loops[i].pc \in {"done", "raised"} => score.finished

\* C7: a pass of the loop has raised (a task reported a state that is no TaskState)
C7_Witness ==
    /\ \E i \in 1..Len(loops) : loops[i].pc = "raised"
    /\ \E t \in 1..Len(celery) : celery[t].state = "REVOKED"
    /\ score.state = "FAILURE"

\* play_the_player(m, p) got a failure from Player.enqueue
EnqueueFailed(m, p) ==
    score.m_status[m][p] = FAILED_TO_PLAY

\* the tasks recorded in task_map for Player p of Measure m
TasksOf(m, p) ==
    {e.id : e \in {x \in score.task_map : x.measure_name = m /\ x.player_name = p}}

\* C16: when Player.enqueue fails for a Player of a Measure (a hostname that is not
\* in the registry, or a Host pending creation for a Measure that is not local), the
\* Measure gets no group handle for the Player and none of the Player's tasks is
\* submitted to the task-execution substrate.
C16_EnqueueAllOrNothing ==
    \A m \in Measures, p \in PlayerNames \cup {CONDUCTOR_ALLHOSTS_PLAYER_NAME} :
      EnqueueFailed(m, p) =>
        /\ \A i \in 1..Len(score.celery_group_tasks[m]) :
              score.celery_group_tasks[m][i].player # p
        /\ \A t \in TasksOf(m, p) : ~celery[t].submitted

\* C16: enqueue failed for p2 at its second Host, which is pending creation, after a
\* signature was built for its first Host
C16_Witness ==
    /\ EnqueueFailed("A", "p2")
    /\ hosts["h2"].pending_create
    /\ \E e \in score.task_map :
          e.measure_name = "A" /\ e.player_name = "p2" /\ e.host_name = "h1"

\* a tune_host task of the Score has failed for good (Celery retries it no more)
TuningTaskFailed ==
    \E e \in score.task_map :
      e.measure_name = tune_orchestra /\ celery[e.id].state = "FAILURE"

\* tune_orchestra has finished with FAILURE, every user Measure without
\* dependency_proof is FAILURE with no task recorded, and so has the Score finished
TuningFailureSpread ==
    /\ score.m_finished[tune_orchestra] /\ score.m_state[tune_orchestra] = "FAILURE"
    /\ \A m \in Measures \ {tune_orchestra} :
          ~score.dependency_proof[m] =>
            score.m_state[m] = "FAILURE" /\ score.m_finished[m] /\ ~Dispatched(m)
    /\ score.finished /\ score.state = "FAILURE"

\* C18 as claimed, for a run that has completed: once a tune_host task has failed,
\* tune_orchestra is FAILURE, every user Measure without dependency_proof is FAILURE and
\* was not dispatched, and the Score is finished with state FAILURE.
C18_TuningFailureFailsAll ==
    (RunCompleted /\ TuningTaskFailed) => TuningFailureSpread

\* C23 as claimed: when a Measure is finished, every task recorded in task_map for it
\* has reported SUCCESS or FAILURE, also when the dispatch to another of its Players
\* failed.
C23_FinishedMeasureTasksTerminal ==
    \A e \in score.task_map :
      score.m_finished[e.measure_name] => celery[e.id].state \in {"SUCCESS", "FAILURE"}

\* C24 as claimed: a finished Measure is SUCCESS or FAILURE, and no step (evaluate_state,
\* smart_queue, queue_measure) changes the state or the finished flag of a Measure that
\* is finished.
C24_FinishedMeasureFrozen ==
    /\ [](\A m \in Measures :
            score.m_finished[m] => score.m_state[m] \in {"SUCCESS", "FAILURE"})
    /\ [][\A m \in Measures :
            score.m_finished[m]
            => score'.m_finished[m] /\ score'.m_state[m] = score.m_state[m]]_vars

GroupSucceeded(m, p) ==
    \E i \in 1..Len(score.celery_group_tasks[m]) :
      /\ score.celery_group_tasks[m][i].player = p
      /\ \A j \in 1..Len(score.celery_group_tasks[m][i].tasks) :
            celery[score.celery_group_tasks[m][i].tasks[j]].state = "SUCCESS"

\* C26: a Measure is SUCCESS only if every Player of its player_names has a group all
\* of whose tasks reported SUCCESS; a Measure with a Player whose dispatch failed is
\* never SUCCESS, and is FAILURE and finished when the run has completed.
C26_SuccessNeedsEveryPlayer ==
    \A m \in Measures :
      /\ score.m_state[m] = "SUCCESS"
         => \A p \in SeqToSet(score.player_names[m]) : GroupSucceeded(m, p)
      /\ (\E p \in SeqToSet(score.player_names[m]) : EnqueueFailed(m, p))
         => /\ score.m_state[m] # "SUCCESS"
            /\ RunCompleted => score.m_state[m] = "FAILURE" /\ score.m_finished[m]

\* C26: the dispatch of A to p2 failed, the task of p1 reported SUCCESS, and A has
\* finished with FAILURE
C26_Witness ==
    /\ EnqueueFailed("A", "p2")
    /\ GroupSucceeded("A", "p1")
    /\ score.m_state["A"] = "FAILURE" /\ score.m_finished["A"]
    /\ RunCompleted

\* loop i makes a pass that reaches smart_queue, and the list it hands to it
QueuePass(i) ==
    /\ loops[i].pc = "scheduled" \/ (loops[i].pc = "sleeping" /\ futures = <<>>)
    /\ loops'[i].pc = "sleeping"
    /\ celery' = celery

Unqueued(i) ==
    IF loops[i].pc = "scheduled" THEN score'.measures ELSE loops[i].unqueued

\* every dependency of m has finished, and none of them failed unless m is
\* dependency-proof
Eligible(sc, m) ==
    \A d \in SeqToSet(sc.depends_on[m]) :
      sc.m_finished[d] /\ (sc.m_state[d] = "FAILURE" => sc.dependency_proof[m])

\* C27: a call of smart_queue creates play_the_player tasks for one Measure at most;
\* that Measure is the first of the unqueued Measures, in their order, whose
\* dependencies (if any) have all finished without a failure that counts; it was not
\* queued before, and it leaves the unqueued list.
C27_QueuesFirstReadyOnce ==
    [][\A i \in 1..Len(loops) :
         QueuePass(i) =>
           /\ \A k \in (Len(futures) + 1)..Len(futures') : futures'[k].measure = to_queue'
           /\ to_queue' = "" => futures' = futures
           /\ to_queue' # "" =>
                /\ \E k \in 1..Len(Unqueued(i)) :
                      /\ Unqueued(i)[k] = to_queue'
                      /\ \A j \in 1..(k - 1) : ~Eligible(score', Unqueued(i)[j])
                /\ Eligible(score', to_queue')
                /\ ~Queued(to_queue')
                /\ to_queue' \notin SeqToSet(loops'[i].unqueued)]_vars

\* C27: B was queued ahead of A, which comes first and waits for B
C27_Witness ==
    /\ to_queue = "B"
    /\ score.m_state["B"] = "QUEUED"
    /\ score.m_state["A"] = "DEFERRED"
    /\ \E i \in 1..Len(loops) : "A" \in SeqToSet(loops[i].unqueued)

\* C28 as claimed: smart_queue marks a Measure as failed by a dependency only when a
\* Measure of its depends_on has finished with FAILURE.
C28_FailsOnlyOnFinishedFailure ==
    [][\A m \in Measures :
         (score.m_status[m]["all"] # DEPENDENCY_FAILED
            /\ score'.m_status[m]["all"] = DEPENDENCY_FAILED)
         => \E d \in SeqToSet(score'.depends_on[m]) :
               score'.m_finished[d] /\ score'.m_state[d] = "FAILURE"]_vars

\* C39 as claimed: whenever the Score is finished, finished_at is set.
C39_FinishedHasFinishedAt ==
    score.finished => score.finished_at

\* C35 as claimed: a Player.enqueue that failed has recorded no task in task_map, and
\* no Host keeps the id of a task that was never submitted, so that no Host is playing
\* on account of a failed enqueue.
C35_FailedEnqueueLeavesNoTrace ==
    /\ \A m \in Measures, p \in PlayerNames :
          EnqueueFailed(m, p) => TasksOf(m, p) = {}
    /\ \A h \in HostNames :
          \A id \in hosts[h].celery_task_ids : celery[id].submitted

\* a task_map entry of a task that Player.enqueue recorded on its Host (the Measure is
\* not local) and submitted
OnHost(e) ==
    /\ ~score.local_measure[e.measure_name]
    /\ celery[e.id].submitted

\* C36: enqueues of several Measures and Players to one Host lose no bookkeeping
\* update. Every submitted task recorded for a Host is in that Host's list of task ids
\* until the task is SUCCESS or FAILURE, and task_map holds exactly one entry for
\* every submitted task id.
C36_NoLostBookkeeping ==
    /\ \A e \in score.task_map :
          OnHost(e) /\ celery[e.id].state \notin {"SUCCESS", "FAILURE"}
            => e.id \in hosts[e.host_name].celery_task_ids
    /\ \A t \in 1..Len(celery) :
          celery[t].submitted => Cardinality({e \in score.task_map : e.id = t}) = 1

\* two Measures have enqueued to the same Host, the first task has started and both
\* ids are in the Host's list
C36_Witness ==
    \E e1 \in score.task_map, e2 \in score.task_map :
       /\ e1.measure_name # e2.measure_name
       /\ e1.host_name = e2.host_name
       /\ OnHost(e1) /\ OnHost(e2)
       /\ celery[e1.id].state = "STARTED"
       /\ {e1.id, e2.id} \subseteq hosts[e1.host_name].celery_task_ids

\* C32 as claimed: while a tune_host task of the tune_orchestra Measure is running
\* for a Host, the Host's tuning flag in the registry is true (so that
\* validate_create_host_mappings rejects the Host).
C32_TuningFlagWhileTuning ==
    \A e \in score.task_map :
       e.measure_name = tune_orchestra /\ celery[e.id].state = "STARTED"
         => hosts[e.host_name].tuning

(***************************************************************************)
(* Properties of one run under fair scheduling                             *)
(***************************************************************************)

\* no Measure depends on itself through depends_on
Acyclic ==
    ~("B" \in SeqToSet(score_file.depends_on["A"])
        /\ "A" \in SeqToSet(score_file.depends_on["B"]))

\* a task has reported FAILURE or was revoked
SomeTaskNotSuccessful ==
    \E t \in 1..Len(celery) : celery[t].state \in {"FAILURE", "REVOKED"}

SomeTaskRevoked ==
    \E t \in 1..Len(celery) : celery[t].state = "REVOKED"

\* no Host of the registry is pending creation, so that no enqueue is refused
NoHostPendingCreation ==
    \A h \in HostNames : ~hosts[h].pending_create

\* the Score and every Measure are SUCCESS and finished
AllSuccess ==
    /\ score.finished /\ score.state = "SUCCESS"
    /\ \A m \in Measures : score.m_state[m] = "SUCCESS" /\ score.m_finished[m]

C6_LoopTerminates ==
    <>(SomeTaskRevoked \/ (score.finished /\ LoopEnded))

\* a dependency-proof Measure of the run whose dependencies have all finished
ProofMeasureReady(m) ==
    /\ score.started_at
    /\ m \in Measures
    /\ score.dependency_proof[m]
    /\ \A d \in Dependencies(m) : score.m_finished[d]

\* C22: a Measure with dependency_proof = true is never failed by smart_queue on
\* account of a failed dependency, and once its dependencies have all finished it is
\* eventually queued and dispatched (A is the Measure the scenario files make
\* dependency-proof).
C22_DependencyProofRuns ==
    /\ [](\A m \in Measures :
            score.dependency_proof[m] => score.m_status[m]["all"] # DEPENDENCY_FAILED)
    /\ ProofMeasureReady("A") ~> Dispatched("A")

\* C22: A is dependency-proof, tune_orchestra has finished with FAILURE, and a task of
\* A was dispatched
C22_Witness ==
    /\ score.dependency_proof["A"]
    /\ score.m_finished[tune_orchestra] /\ score.m_state[tune_orchestra] = "FAILURE"
    /\ \E e \in score.task_map : e.measure_name = "A" /\ celery[e.id].submitted

\* The conductor with its request handlers, for the scenario files of ApiScoreFiles.
NextApi ==
    \/ Next
    \/ CueTheMusic
    \/ RollCall
    \/ ApiReadScoreForce
    \/ OrphanEnds

SpecApi ==
    InitApi /\ [][NextApi]_vars

\* the play() loops started for the Score's name that have not ended
PlayingLoops ==
    Cardinality({i \in 1..Len(loops) : loops[i].pc \in {"scheduled", "sleeping"}}) + orphans

\* C4 as claimed: whatever the interleaving of cue_the_music, roll_call and read_score
\* requests, at most one play() loop runs for the Score's name at any time.
C4_AtMostOneLoop ==
    PlayingLoops <= 1

(***************************************************************************)
(* The aggregation functions applied to drawn inputs                       *)
(***************************************************************************)

\* bounds of the drawn inputs
MaxTasks      == 3
MaxGroupTasks == 2
MaxPlayers    == 2
MaxMeasures   == 2

\* the sequences over S of length lo..hi
SeqsOf(S, lo, hi) ==
    UNION {[1..n -> S] : n \in lo..hi}

\* the states Celery may report for a task (task.status)
CeleryStates ==
    TaskState \cup {"REVOKED"}

\* the statuses celery_group_status gives for the groups of up to MaxGroupTasks tasks
GroupStatuses ==
    {celery_group_status(c) : c \in SeqsOf(TaskState, 1, MaxGroupTasks)}

\* the conductor with no Score playing
Idle ==
    /\ score_file \in ApiScoreFiles
    /\ score = NewScore(score_file)
    /\ hosts = [h \in HostNames |-> NewHost(TRUE)]
    /\ backend = HostNames
    /\ celery = <<>>
    /\ loops = <<>>
    /\ futures = <<>>
    /\ to_queue = ""
    /\ orphans = 0
    /\ budget = [cues |-> 0, reloads |-> 0, revokes |-> 0]

InitAgg ==
    /\ Idle
    /\ store = NoStore
    /\ call = NoCall
    /\ agg \in
         [level : {"priority"}, done : {FALSE}, a : TaskState, b : TaskState]
         \cup [level : {"group"}, done : {FALSE},
               children : SeqsOf(CeleryStates, 1, MaxTasks)]
         \cup {[level |-> "measure", done |-> FALSE, prior |-> prior,
                nplayers |-> n, tstats |-> ts] :
                  prior \in TaskState, n \in 1..MaxPlayers,
                  ts \in SeqsOf(GroupStatuses, 0, MaxPlayers)}
         \cup [level : {"score"}, done : {FALSE}, prior : TaskState,
               prior_finished : BOOLEAN,
               ms : SeqsOf([state : TaskState, finished : BOOLEAN], 1, MaxMeasures)]
    /\ agg.level = "measure" => Len(agg.tstats) <= agg.nplayers

\* task_state_priority is applied to two states
ComparePriority ==
    /\ agg.level = "priority" /\ ~agg.done
    /\ agg' = [agg EXCEPT !.done = TRUE] @@
              [pa |-> task_state_priority(agg.a), pb |-> task_state_priority(agg.b)]
    /\ UNCHANGED <<schedVars, store, call>>

\* celery_group_status is applied to a group's task states
AggregateGroup ==
    /\ agg.level = "group" /\ ~agg.done
    /\ agg' = [agg EXCEPT !.done = TRUE] @@ [out |-> celery_group_status(agg.children)]
    /\ UNCHANGED <<schedVars, store, call>>

\* Measure.evaluate_state is applied to the statuses of a Measure's player groups
AggregateMeasure ==
    /\ agg.level = "measure" /\ ~agg.done
    /\ agg' = [agg EXCEPT !.done = TRUE] @@
              [out |-> Measure_evaluate_state(agg.prior, agg.nplayers, agg.tstats)]
    /\ UNCHANGED <<schedVars, store, call>>

\* Score.evaluate_state is applied to the Measures' states
AggregateScore ==
    /\ agg.level = "score" /\ ~agg.done
    /\ agg' = [agg EXCEPT !.done = TRUE] @@
              [out |-> Score_aggregate(agg.prior, agg.prior_finished, agg.ms)]
    /\ UNCHANGED <<schedVars, store, call>>

NextAgg ==
    \/ ComparePriority
    \/ AggregateGroup
    \/ AggregateMeasure
    \/ AggregateScore

SpecAgg ==
    InitAgg /\ [][NextAgg]_vars

\* the states of a sequence of children carrying a state field
StatesOf(children) ==
    [i \in 1..Len(children) |-> children[i].state]

\* at least one child is FAILURE and every other child is SUCCESS or FAILURE
FailureAmongTerminal(states) ==
    /\ \E i \in 1..Len(states) : states[i] = "FAILURE"
    /\ AllIn(states, {"SUCCESS", "FAILURE"})

\* C8: at each level (tasks into a player group, the groups of all of a Measure's
\* Players into the Measure, Measures into the Score), children that are all SUCCESS
\* aggregate to SUCCESS in whatever order they are visited, and children of which at
\* least one is FAILURE and all others are SUCCESS or FAILURE aggregate to FAILURE.
C8_AggregationSound ==
    agg.done =>
      /\ agg.level = "group" =>
           /\ AllIn(agg.children, {"SUCCESS"}) => agg.out.state = "SUCCESS"
           /\ FailureAmongTerminal(agg.children)
                => agg.out.state = "FAILURE" /\ ~agg.out.raised
      /\ (agg.level = "measure" /\ Len(agg.tstats) = agg.nplayers) =>
           /\ AllIn(StatesOf(agg.tstats), {"SUCCESS"}) => agg.out.state = "SUCCESS"
           /\ FailureAmongTerminal(StatesOf(agg.tstats)) => agg.out.state = "FAILURE"
      /\ agg.level = "score" =>
           /\ AllIn(StatesOf(agg.ms), {"SUCCESS"}) => agg.out.state = "SUCCESS"
           /\ FailureAmongTerminal(StatesOf(agg.ms)) => agg.out.state = "FAILURE"

\* C8: a Measure of two Players whose groups are SUCCESS then FAILURE, both finished,
\* was aggregated to FAILURE
C8_Witness ==
    /\ agg.level = "measure" /\ agg.done
    /\ agg.nplayers = 2
    /\ StatesOf(agg.tstats) = <<"SUCCESS", "FAILURE">>
    /\ \A i \in 1..Len(agg.tstats) : agg.tstats[i].finished
    /\ agg.out.state = "FAILURE"

\* C9: task_state_priority gives two TaskStates the same severity only when they are
\* the same state, and a lower severity exactly when the first comes earlier in
\* SUCCESS < PENDING < DEFERRED < QUEUED < STARTED < PROGRESS < RETRY < FAILURE; so
\* SUCCESS is the unique minimum and FAILURE the unique maximum.
C9_SeverityTotalOrder ==
    LET Rank == [SUCCESS |-> 1, PENDING |-> 2, DEFERRED |-> 3, QUEUED |-> 4,
                 STARTED |-> 5, PROGRESS |-> 6, RETRY |-> 7, FAILURE |-> 8]
    IN (agg.level = "priority" /\ agg.done) =>
         /\ (agg.pa = agg.pb) <=> (agg.a = agg.b)
         /\ (agg.pa < agg.pb) <=> (Rank[agg.a] < Rank[agg.b])
         /\ agg.b # "SUCCESS" => task_state_priority("SUCCESS") < agg.pb
         /\ agg.a # "FAILURE" => agg.pa < task_state_priority("FAILURE")

\* C9: the severities of RETRY and FAILURE were compared
C9_Witness ==
    /\ agg.level = "priority" /\ agg.done
    /\ agg.a = "RETRY" /\ agg.b = "FAILURE"
    /\ agg.pa < agg.pb

(***************************************************************************)
(* One store and one fetch on a Score's stored_data                        *)
(***************************************************************************)

\* bounds of the drawn values
MaxLen  == 2
MaxChar == 1

\* the characters of the drawn strings
Chars ==
    {"0", "x"}

Strs ==
    SeqsOf(Chars, 0, MaxChar)

\* the values without parts
Atoms ==
    {PyNone, PyInt(0), PyInt(1)} \cup {PyStr(c) : c \in Strs}

\* the dicts of up to MaxLen entries, their keys distinct
Dicts ==
    {PyDict(d) : d \in {e \in SeqsOf([k : Strs \ {<<>>}, v : Atoms], 0, MaxLen) :
                          \A i, j \in 1..Len(e) : e[i].k = e[j].k => i = j}}

Values ==
    Atoms \cup {PyList(l) : l \in SeqsOf(Atoms, 0, MaxLen)} \cup Dicts

\* the lists and dicts among them, and the values that hold one of these as their
\* only element (a list of a container, a dict of host name to container)
Containers ==
    {v \in Values : v.t \in {"list", "dict"}}

NestedValues ==
    {PyList(<<c>>) : c \in Containers}
      \cup {PyDict(<<[k |-> <<"x">>, v |-> c]>>) : c \in Containers}

\* measure.store_as and the Player's name
StoreAs ==
    <<"r">>

PlayerName ==
    <<"p">>

InitStore ==
    /\ Idle
    /\ agg = NoAggregation
    /\ call = NoCall
    /\ store \in
         [phase        : {"request"},
          stored_data  : {PyDict(<<>>),
                          PyDict(<<[k |-> StoreAs, v |-> PyStr(<<"x">>)]>>),
                          PyDict(<<[k |-> StoreAs,
                                    v |-> PyDict(<<[k |-> PlayerName,
                                                    v |-> PyInt(1)]>>)]>>)},
          player_name  : {<<>>, PlayerName},
          results      : Values \cup NestedValues,
          subkey       : {PlayerName},
          subsubkey    : {<<>>, <<"0">>, <<"1">>, <<"5">>, <<"x">>},
          subsubsubkey : {<<>>, <<"0">>, <<"1">>}]

\* Score.store_results(measure, player_name, results) for the Measure with store_as
StoreResults ==
    /\ store.phase = "request"
    /\ \E r \in {Score_store_results(store.stored_data, StoreAs, store.player_name,
                                     store.results)} :
          store' = [store EXCEPT !.phase = "stored", !.stored_data = r.stored] @@
                   [store_raised |-> r.raised]
    /\ UNCHANGED <<schedVars, agg, call>>

\* Score.fetch_stored_data(key, subkey, subsubkey, subsubsubkey)
FetchStoredData ==
    /\ store.phase = "stored"
    /\ store' = [store EXCEPT !.phase = "fetched"] @@
                [fetched |-> fetch_stored_data(store.stored_data, StoreAs, store.subkey,
                                               store.subsubkey, store.subsubsubkey)]
    /\ UNCHANGED <<schedVars, agg, call>>

NextStore ==
    \/ StoreResults
    \/ FetchStoredData

SpecStore ==
    InitStore /\ [][NextStore]_vars

\* C10 as claimed: once store_results has stored results for the Player under the
\* Measure's store_as, fetch_stored_data(store_as, player) succeeds with exactly
\* results, and for results a list with a first element,
\* fetch_stored_data(store_as, player, "0") succeeds with that element.
C10_StoreFetchRoundTrip ==
    (/\ store.phase = "fetched"
     /\ ~store.store_raised
     /\ store.player_name = PlayerName
     /\ store.subkey = PlayerName) =>
      /\ store.subsubkey = <<>> => store.fetched = Fetched(TRUE, 200, store.results)
      /\ (/\ store.results.t = "list"
          /\ store.results.items # <<>>
          /\ store.subsubkey = <<"0">>
          /\ store.subsubsubkey = <<>>)
         => store.fetched = Fetched(TRUE, 200, store.results.items[1])

\* the value stored for the Player once store_results has returned
StoredForPlayer ==
    /\ store.phase = "fetched"
    /\ ~store.store_raised
    /\ store.player_name = PlayerName
    /\ store.subkey = PlayerName

\* len(data) and the element at position i (from 0) of a list, or the i-th value of
\* a dict in insertion order
Size(data) ==
    IF data.t = "list" THEN Len(data.items) ELSE Len(data.entries)

ElementAt(data, i) ==
    IF data.t = "list" THEN data.items[i + 1] ELSE data.entries[i + 1].v

\* the token is a string of digits that is not found in the list or dict data
Positional(data, token) ==
    /\ data.t \in {"list", "dict"}
    /\ isdigit(token)
    /\ ~Contains(token, data)

\* what the positional fallback is to give for position i of data
PositionalResult(data, i) ==
    IF i < Size(data) THEN Fetched(TRUE, 200, ElementAt(data, i))
    ELSE Fetched(FALSE, 400, PyNone)

C12_FetchIsTotal ==
    store.phase = "fetched" =>
      /\ ~store.fetched.raised
      /\ \/ store.fetched.success /\ store.fetched.code = 200
         \/ ~store.fetched.success /\ store.fetched.code = 400
              /\ store.fetched.data = PyNone

(***************************************************************************)
(* Special arguments (util.py parse_special_arg, transform_arg)            *)
(***************************************************************************)

\* bound of the drawn tokens: the digits of a bound of the range
MaxDigits == 2

\* "a > b" of Python for two strings of digits: the order of the code points at the
\* first place where they differ, a proper prefix being the smaller
StrGreater(a, b) ==
    \E i \in 1..Len(a) :
      /\ \A j \in 1..(i - 1) : j <= Len(b) /\ a[j] = b[j]
      /\ \/ i > Len(b)
         \/ i <= Len(b) /\ ListIndex(Digits, a[i]) > ListIndex(Digits, b[i])

\* util.py parse_special_arg(a) for a = "johann.random.<low>-<high>", low and high
\* the digits matched by (\d+): rand.group(1) and rand.group(2) are strings
parse_special_arg_random(low, high) ==
    IF StrGreater(low, high)
    THEN [raised |-> TRUE]
    ELSE [raised |-> FALSE, arg_type |-> "random", arg_split |-> <<low, high>>]

\* the digits the drawn tokens are written with, and the tokens' bounds
TokenDigits ==
    {"0", "1", "3", "5", "9"}

Bounds ==
    SeqsOf(TokenDigits, 1, MaxDigits)

InitArg ==
    /\ Idle
    /\ agg = NoAggregation
    /\ store = NoStore
    /\ call \in [fn : {"parse_special_arg"}, done : {FALSE}, low : Bounds, high : Bounds]

\* parse_special_arg is applied to the token
ParseSpecialArg ==
    /\ call.fn = "parse_special_arg" /\ ~call.done
    /\ call' = [call EXCEPT !.done = TRUE] @@
               [out |-> parse_special_arg_random(call.low, call.high)]
    /\ UNCHANGED <<schedVars, agg, store>>

\* util.py transform_arg for the parsed token: random.randint(int(low), int(high)),
\* which raises ValueError for an empty range
TransformArg ==
    /\ call.fn = "parse_special_arg" /\ call.done /\ "new_arg" \notin DOMAIN call
    /\ \E r \in IF call.out.raised \/ int(call.low) > int(call.high)
                THEN {[raised |-> TRUE]}
                ELSE {[raised |-> FALSE, value |-> n] :
                        n \in int(call.low)..int(call.high)} :
          call' = call @@ [new_arg |-> r]
    /\ UNCHANGED <<schedVars, agg, store>>

NextArg ==
    \/ ParseSpecialArg
    \/ TransformArg

SpecArg ==
    InitArg /\ [][NextArg]_vars

\* C13 as claimed: the token johann.random.<low>-<high> is accepted, with the bounds
\* (low, high), exactly when low <= high as integers.
C13_RandomRangeAccepted ==
    (call.fn = "parse_special_arg" /\ call.done) =>
      /\ ~call.out.raised <=> int(call.low) <= int(call.high)
      /\ ~call.out.raised => call.out.arg_split = <<call.low, call.high>>

(***************************************************************************)
(* Stored-data tokens in the arguments of a Measure (util.py transform_arg, *)
(* measure.py Measure.store_results, score.py Score.play_the_player)       *)
(*                                                                         *)
(* Measure A (store_as, not store_singleton) runs on the Hosts of one      *)
(* Player; Measure B depends on A and has one argument, a johann.stored    *)
(* token.                                                                  *)
(***************************************************************************)

\* bound of the drawn tokens: the dotted segments after "johann.stored"
MaxSegments == 5

\* score.name, and the host names of A's Player
ScoreName ==
    <<"s">>

PlayerHosts ==
    <<(<<"h", "1">>), (<<"h", "2">>)>>

\* the str "johann.stored." followed by the segments joined by dots
StoredToken(segments) ==
    [t |-> "str", stored |-> segments]

\* util.py parse_special_arg(a) for a = johann.stored.<keyparts>: the four-item list
\* [key, subkey, subsubkey, subsubsubkey] with None for the parts that are absent,
\* KeyError for more than four parts
parse_special_arg_stored(keyparts) ==
    IF Len(keyparts) > 4
    THEN [raised |-> TRUE, exc |-> "KeyError"]
    ELSE [raised |-> FALSE, exc |-> "none", arg_type |-> "stored",
          arg_split |-> [i \in 1..4 |->
                           IF i <= Len(keyparts) THEN PyStr(keyparts[i]) ELSE PyNone]]

\* "'.'.join(items)": TypeError unless every item is a str
str_join(items) ==
    IF \E i \in 1..Len(items) : items[i].t # "str"
    THEN [raised |-> TRUE]
    ELSE [raised |-> FALSE, segments |-> [i \in 1..Len(items) |-> items[i].s]]

\* what transform_arg gives: the exception that leaves it ("none" when it returns),
\* the value returned, and whether stored_data was read
Transformed(exc, value, read) ==
    [exc |-> exc, value |-> value, read |-> read]

\* an argument of fetch_stored_data: None is an absent part
KeyPart(v) ==
    IF v.t = "str" THEN v.s ELSE <<>>

\* util.py transform_arg(score, measure, player, a) for a = johann.stored.<keyparts>
transform_arg_stored(stored_data, score_name, lazy_fetch_stored, keyparts) ==
    LET Joined(j) ==
          IF j.raised THEN Transformed("TypeError", PyNone, FALSE)
          ELSE Transformed("none", StoredToken(<<score_name>> \o j.segments), FALSE)
        Fetch(f) ==
          IF f.raised THEN Transformed("TypeError", PyNone, TRUE)
          ELSE IF ~f.success THEN Transformed("KeyError", PyNone, TRUE)
          ELSE Transformed("none", f.data, TRUE)
        Parsed(p) ==
          IF p.raised THEN Transformed(p.exc, PyNone, FALSE)
          ELSE IF lazy_fetch_stored THEN Apply(str_join(p.arg_split), Joined)
          ELSE Apply(fetch_stored_data(stored_data, KeyPart(p.arg_split[1]),
                                       KeyPart(p.arg_split[2]), KeyPart(p.arg_split[3]),
                                       KeyPart(p.arg_split[4])),
                     Fetch)
    IN Apply(parse_special_arg_stored(keyparts), Parsed)

\* score.py Score.play_the_player for a Measure whose args are [johann.stored.<keyparts>]
\* and whose Hosts accept the tasks: the exceptions it catches fail the Measure without
\* finishing it; any other exception leaves it and wrap_future (util.py, the except
\* branch with score_or_measure = the Measure) sets FAILURE and finished
play_the_player_stored(stored_data, score_name, lazy_fetch_stored, keyparts) ==
    LET Played(x) ==
          IF x.exc \in {"AssertionError", "KeyError", "ValueError"}
          THEN [state |-> "FAILURE", finished |-> FALSE, dispatched |-> FALSE,
                new_args |-> <<>>, read |-> x.read]
          ELSE IF x.exc # "none"
          THEN [state |-> "FAILURE", finished |-> TRUE, dispatched |-> FALSE,
                new_args |-> <<>>, read |-> x.read]
          ELSE [state |-> "QUEUED", finished |-> FALSE, dispatched |-> TRUE,
                new_args |-> <<x.value>>, read |-> x.read]
    IN Apply(transform_arg_stored(stored_data, score_name, lazy_fetch_stored, keyparts),
             Played)

\* the loop "for t_id, t in tstat['tasks'].items()" of Measure.store_results: a task
\* in state SUCCESS has a result, a task in state PROGRESS has its meta; a result that
\* is None is not stored
RECURSIVE ResultsLoop(_, _, _)
ResultsLoop(results_p, store_interim_results, tasks) ==
    IF tasks = <<>>
    THEN results_p
    ELSE LET t == Head(tasks)
             t_result == IF t.state = "SUCCESS" THEN t.result
                         ELSE IF store_interim_results /\ t.state = "PROGRESS"
                         THEN t.interim_result
                         ELSE PyNone
             Rest(r) == ResultsLoop(r, store_interim_results, Tail(tasks))
         IN Apply(IF t_result.t # "NoneType"
                  THEN DictSet(results_p, t.host_name, t_result)
                  ELSE results_p,
                  Rest)

\* measure.py Measure.store_results(score, task_status) for a Measure with store_as
\* and without store_singleton, run by one Player: the Score's stored_data afterwards
Measure_store_results(stored_data, store_interim_results, tasks) ==
    Apply(ResultsLoop(<<>>, store_interim_results, tasks),
          LAMBDA results_p :
            IF results_p # <<>>
            THEN Score_store_results(stored_data, StoreAs, PlayerName,
                                     PyDict(results_p)).stored
            ELSE stored_data)

\* the tokens drawn for B's argument: the parts that lead to a value stored by A, up
\* to MaxSegments of them, and a key that nothing is stored under
StoredSegments ==
    [n \in 1..MaxSegments |->
       IF n = 1 THEN StoreAs
       ELSE IF n = 2 THEN PlayerName
       ELSE IF n = 3 THEN PlayerHosts[1]
       ELSE <<"0">>]

StoredTokens ==
    {SubSeq(StoredSegments, 1, n) : n \in 1..MaxSegments} \cup {<<(<<"x">>)>>}

\* B before smart_queue has queued it
NotPlayed ==
    [state |-> "PENDING", finished |-> FALSE, dispatched |-> FALSE, new_args |-> <<>>,
     read |-> FALSE]

\* A is queued and the tasks of its Player are submitted, one per Host
InitStored ==
    /\ Idle
    /\ agg = NoAggregation
    /\ store = NoStore
    /\ call \in
         [fn                    : {"play_stored"},
          done                  : {FALSE},
          store_interim_results : BOOLEAN,
          lazy_fetch_stored     : BOOLEAN,
          token                 : StoredTokens,
          tasks                 : {[i \in 1..Len(PlayerHosts) |->
                                      [host_name      |-> PlayerHosts[i],
                                       state          |-> "PENDING",
                                       result         |-> PyNone,
                                       interim_result |-> PyNone]]},
          stored_data           : {PyDict(<<>>)},
          A                     : {[state |-> "QUEUED", finished |-> FALSE]},
          B                     : {NotPlayed}]

\* a worker reports on the task of Host i: progress with or without an interim
\* result, failure, or success with the value the task returned
WorkerReports(i, st, v) ==
    /\ call.fn = "play_stored"
    /\ i \in 1..Len(call.tasks)
    /\ \/ call.tasks[i].state = "PENDING" /\ st \in {"PROGRESS", "SUCCESS", "FAILURE"}
       \/ call.tasks[i].state = "PROGRESS" /\ st \in {"SUCCESS", "FAILURE"}
    /\ st = "PROGRESS" => v \in {PyNone, PyInt(0)}
    /\ st = "SUCCESS" => v \in {PyNone, PyInt(1)}
    /\ st = "FAILURE" => v = PyNone
    /\ call' = [call EXCEPT !.tasks[i].state = st,
                            !.tasks[i].result = IF st = "SUCCESS" THEN v ELSE @,
                            !.tasks[i].interim_result = IF st = "PROGRESS" THEN v ELSE @]
    /\ UNCHANGED <<schedVars, agg, store>>

\* a pass of play() while A has not finished: Measure.evaluate_state of A, which ends
\* with store_results
EvaluateStored ==
    /\ call.fn = "play_stored"
    /\ ~call.A.finished
    /\ \E g \in {celery_group_status([i \in 1..Len(call.tasks) |-> call.tasks[i].state])} :
       \E r \in {Measure_evaluate_state(call.A.state, 1, <<g>>)} :
          call' = [call EXCEPT
                     !.A = [state |-> r.state, finished |-> r.finished],
                     !.stored_data = Measure_store_results(@, call.store_interim_results,
                                                           call.tasks)]
    /\ UNCHANGED <<schedVars, agg, store>>

\* smart_queue finds A, on which B depends, finished and not failed, and queues B;
\* play_the_player runs for B's Player
PlayStored ==
    /\ call.fn = "play_stored"
    /\ ~call.done
    /\ call.A.finished /\ call.A.state # "FAILURE"
    /\ call' = [call EXCEPT
                  !.done = TRUE,
                  !.B = play_the_player_stored(call.stored_data, ScoreName,
                                               call.lazy_fetch_stored, call.token)]
    /\ UNCHANGED <<schedVars, agg, store>>

NextStored ==
    \/ \E i \in 1..Len(PlayerHosts), st \in TaskState, v \in {PyNone, PyInt(0), PyInt(1)} :
         WorkerReports(i, st, v)
    \/ EvaluateStored
    \/ PlayStored

SpecStored ==
    InitStored /\ [][NextStored]_vars

\* play_the_player has run for B, whose Measure resolves its tokens lazily
LazyPlayed ==
    call.fn = "play_stored" /\ call.done /\ call.lazy_fetch_stored

\* C21 as claimed: for a Measure with lazy_fetch_stored = true, a token
\* johann.stored.<1 to 4 segments> is dispatched as johann.stored.<score name>.<the
\* same segments>, stored_data is not read for it, and the Measure is dispatched.
C21_LazyTokenRewritten ==
    (LazyPlayed /\ Len(call.token) \in 1..4) =>
      /\ call.B.dispatched
      /\ call.B.new_args = <<StoredToken(<<ScoreName>> \o call.token)>>
      /\ ~call.B.read

\* every task of A has reported SUCCESS and B, whose argument is the eagerly resolved
\* token johann.stored.<store_as>.<player>, was played after A finished with SUCCESS
EagerPlayed ==
    /\ call.fn = "play_stored" /\ call.done /\ ~call.lazy_fetch_stored
    /\ call.token = <<StoreAs, PlayerName>>
    /\ call.A.state = "SUCCESS"

\* the map from host name to the result the Host's task returned
TerminalResults ==
    PyDict([i \in 1..Len(call.tasks) |->
              [k |-> call.tasks[i].host_name, v |-> call.tasks[i].result]])

\* C29 as claimed: B's token resolves to the map from host name to that host's
\* terminal result of A, never to an interim result or to a missing key.
C29_StoredResultsVisible ==
    EagerPlayed => call.B.dispatched /\ call.B.new_args = <<TerminalResults>>

\* the token does resolve to that map when the task of every Host returned a value
\* other than None
StoredResultsVisibleWhenReturned ==
    (EagerPlayed /\ \A i \in 1..Len(call.tasks) : call.tasks[i].result # PyNone)
    => call.B.dispatched /\ call.B.new_args = <<TerminalResults>>

(***************************************************************************)
(* Hostnames for hosts to be created (score.py Score.map_missing_hosts)    *)
(***************************************************************************)

\* bound of the drawn Players: the largest scale
MaxScale == 2

\* the values of str(uuid4())[:6] the model draws from
Suffixes ==
    {"a", "b", "c"}

\* f"{player.name}_{str(uuid4())[:6]}"
SynthesizedName(player_name, suffix) ==
    <<player_name, "_", suffix>>

\* the loop "for _ in range(count)" of map_missing_hosts for one Player: the lists of
\* hostnames it may append, a name being drawn again while it is in taken_hostnames
RECURSIVE Synthesize(_, _, _)
Synthesize(player_name, taken_hostnames, count) ==
    IF count <= 0
    THEN {<<>>}
    ELSE UNION {{<<h>> \o rest :
                   rest \in Synthesize(player_name, taken_hostnames \cup {h}, count - 1)} :
                h \in {SynthesizedName(player_name, x) : x \in Suffixes}
                        \ taken_hostnames}

\* score.py Score.map_missing_hosts(taken_hostnames) for a Score of one Player: the
\* Players it may leave behind
map_missing_hosts(player, taken_hostnames) ==
    {[player EXCEPT !.hostnames = player.hostnames \o new] :
       new \in Synthesize(player.name, taken_hostnames,
                          player.scale - Len(player.hostnames))}

\* Two Scores with create_hosts = true, each of one Player without hostnames;
\* taken is what get_host_names() returns while no host is created.
InitMap ==
    /\ Idle
    /\ agg = NoAggregation
    /\ store = NoStore
    /\ call \in
         [fn      : {"map_missing_hosts"},
          done    : {FALSE},
          taken   : SUBSET {SynthesizedName("p", "a"), SynthesizedName("q", "a")},
          players : {<<[name |-> "p", scale |-> m, hostnames |-> <<>>],
                       [name |-> n, scale |-> k, hostnames |-> <<>>]>> :
                       n \in {"p", "q"}, m \in 0..MaxScale, k \in 1..MaxScale},
          validated : {{}}]

\* validate_create_host_mappings of Score k up to the call of map_missing_hosts
MapMissingHosts(k) ==
    /\ call.fn = "map_missing_hosts"
    /\ \E p \in map_missing_hosts(call.players[k], call.taken) :
          call' = [call EXCEPT !.players[k] = p,
                               !.validated = @ \cup {k},
                               !.done = TRUE]
    /\ UNCHANGED <<schedVars, agg, store>>

NextMap ==
    \E k \in 1..2 : MapMissingHosts(k)

SpecMap ==
    InitMap /\ [][NextMap]_vars

\* C14 as claimed: the hostnames synthesized by two validate_create_host_mappings
\* calls are all different from each other and from the taken names.
C14_SynthesizedNamesUnique ==
    call.fn = "map_missing_hosts" =>
      /\ SeqToSet(call.players[1].hostnames) \cap SeqToSet(call.players[2].hostnames) = {}
      /\ \A k \in 1..2 : SeqToSet(call.players[k].hostnames) \cap call.taken = {}

(***************************************************************************)
(* Hostnames against scale (score.py Score.validate_create_host_mappings)  *)
(***************************************************************************)

\* f"{p.name}: no hosts mapped" and f"{p.name}: length of hosts does not match scale
\* ({p.scale})"
NoHostsMapped(p) ==
    <<p.name, ": no hosts mapped">>

LengthMismatch(p) ==
    <<p.name, ": length of hosts does not match scale", p.scale>>

\* A mutant of validate_hostnames_length: only the Player without hostnames is tested.
validate_hostnames_length_empty_only(acc, p, create_hosts, allow_empty) ==
    IF p.hostnames = <<>> /\ ~create_hosts /\ ~(p.scale = 0 /\ allow_empty)
    THEN [acc EXCEPT !.success = FALSE, !.err_msgs = Append(@, NoHostsMapped(p)),
                     !.skip = TRUE]
    ELSE [acc EXCEPT !.skip = FALSE]

\* "validate hostnames length" of validate_create_host_mappings for Player p:
\* skip = TRUE is the "continue" that leaves out the loop over p.hostnames;
\* allow_empty is config.ALLOW_EMPTY_PLAYER_HOSTS
validate_hostnames_length(acc, p, create_hosts, allow_empty) ==
    IF p.hostnames = <<>> /\ ~create_hosts
    THEN IF p.scale = 0 /\ allow_empty
         THEN [acc EXCEPT !.skip = FALSE]
         ELSE [acc EXCEPT !.success = FALSE, !.err_msgs = Append(@, NoHostsMapped(p)),
                          !.skip = TRUE]
    ELSE IF Len(p.hostnames) # p.scale /\ ~create_hosts
    THEN [acc EXCEPT !.success = FALSE, !.err_msgs = Append(@, LengthMismatch(p)),
                     !.skip = TRUE]
    ELSE [acc EXCEPT !.skip = FALSE]

\* the loop "for p in self.players.values()" of validate_create_host_mappings over
\* Players given with their scale: the allhosts Player is skipped, the others pass
\* the length test before their hostnames are looked at; err_msgs holds the
\* messages of the length test
RECURSIVE ValidateScaledPlayers(_, _, _, _, _)
ValidateScaledPlayers(acc, create_hosts, allow_empty, bk, players) ==
    IF players = <<>>
    THEN acc
    ELSE LET p == Head(players)
             Rest(a) == ValidateScaledPlayers(a, create_hosts, allow_empty, bk,
                                              Tail(players))
             Hosts(a) == IF a.skip THEN a
                         ELSE ValidateHosts(a, create_hosts, bk, p.hostnames)
         IN IF p.name = CONDUCTOR_ALLHOSTS_PLAYER_NAME
            THEN Rest(acc)
            ELSE Apply(Apply(validate_hostnames_length(acc, p, create_hosts, allow_empty),
                             Hosts),
                       Rest)

\* the Players drawn: a name, a scale and hostnames of the registry
ScaledPlayers ==
    [name      : {"p1", "p2", CONDUCTOR_ALLHOSTS_PLAYER_NAME},
     scale     : 0..MaxScale,
     hostnames : SeqsOf(HostNames, 0, MaxScale)]

\* A Score with create_hosts = false and one or two Players, all hosts of the
\* registry existing.
InitScale ==
    /\ Idle
    /\ agg = NoAggregation
    /\ store = NoStore
    /\ call \in
         [fn          : {"validate_create_host_mappings"},
          done        : {FALSE},
          allow_empty : BOOLEAN,
          players     : {ps \in SeqsOf(ScaledPlayers, 1, 2) :
                           /\ \A i, j \in 1..Len(ps) : ps[i].name = ps[j].name => i = j
                           /\ ps[1].name \in {"p1", CONDUCTOR_ALLHOSTS_PLAYER_NAME}}]

\* validate_create_host_mappings() of the Score, create_hosts being false
ValidateLengths ==
    /\ call.fn = "validate_create_host_mappings" /\ ~call.done
    /\ \E r \in {ValidateScaledPlayers(
                   [hosts |-> hosts, success |-> TRUE, raised |-> FALSE,
                    err_msgs |-> <<>>, skip |-> FALSE],
                   FALSE, call.allow_empty, backend, call.players)} :
          call' = [call EXCEPT !.done = TRUE] @@
                  [out |-> [success |-> r.success, err_msgs |-> r.err_msgs]]
    /\ UNCHANGED <<schedVars, agg, store>>

NextScale ==
    ValidateLengths

SpecScale ==
    InitScale /\ [][NextScale]_vars

\* C15: with create_hosts = false, validate_create_host_mappings fails for every
\* Score with a Player, other than the allhosts Player, whose number of hostnames
\* differs from its scale; for the one Player p1 with scale 2 and no hostnames it
\* returns (false, ["p1: no hosts mapped"]).
C15_ScaleMismatchFails ==
    (call.fn = "validate_create_host_mappings" /\ call.done) =>
      /\ (\E i \in 1..Len(call.players) :
            /\ call.players[i].name # CONDUCTOR_ALLHOSTS_PLAYER_NAME
            /\ Len(call.players[i].hostnames) # call.players[i].scale)
           => ~call.out.success
      /\ call.players = <<[name |-> "p1", scale |-> 2, hostnames |-> <<>>]>>
           => call.out = [success |-> FALSE,
                          err_msgs |-> <<<<"p1", ": no hosts mapped">>>>]

\* C15: a Player with one hostname and scale 2 made the validation fail
C15_Witness ==
    /\ call.fn = "validate_create_host_mappings" /\ call.done
    /\ \E i \in 1..Len(call.players) :
         /\ call.players[i].name = "p2"
         /\ Len(call.players[i].hostnames) = 1 /\ call.players[i].scale = 2
    /\ ~call.out.success

(***************************************************************************)
(* Tuning of a Host (conductor_tasks.py tune_host)                         *)
(***************************************************************************)

\* the tune_host tasks dispatched, and the task ids user Measures bookkeep on the Host
MaxTuneTasks ==
    2

MaxBookkept ==
    1

\* shared/config.py: a deployment with the DOCKER control method and one plugin
HOST_CONTROL_CLASS_NAMES ==
    {"DOCKER", "PLUGIN"}

CONDUCTOR_LOCAL_HOST_NAME ==
    "johann_conductor"

\* the values config.HOST_AUTO_INSTALL is given by the deployment's settings
AutoInstallSettings ==
    BOOLEAN

\* the values config.DEFAULT_HOST_CONTROL is given by the deployment's settings
DefaultHostControls ==
    {"DOCKER", "SSH"}

\* config.HOST_IMAGE_PARAMS[image]["control_method"]; "none" stands for an image
\* without the key (KeyError)
HOST_IMAGE_PARAMS ==
    [image \in {"johann_player", "plugin_player", "telnet_player", "blank"} |->
       CASE image = "johann_player" -> "DOCKER"
         [] image = "plugin_player" -> "PLUGIN"
         [] image = "telnet_player" -> "TELNET"
         [] OTHER -> "none"]

\* host.py Host.match_control_method_to_image
match_control_method_to_image(image, DEFAULT_HOST_CONTROL) ==
    IF HOST_IMAGE_PARAMS[image] = "none"
         \/ HOST_IMAGE_PARAMS[image] \notin HOST_CONTROL_CLASS_NAMES
    THEN DEFAULT_HOST_CONTROL
    ELSE HOST_IMAGE_PARAMS[image]

\* host.py Host.__init__ for the fields tuning reads: the control method is matched to
\* the image whatever the argument control_method holds, and no task id is bookkept
Host(name, image, DEFAULT_HOST_CONTROL) ==
    [name            |-> name,
     image           |-> image,
     control_method  |-> match_control_method_to_image(image, DEFAULT_HOST_CONTROL),
     tuning          |-> FALSE,
     pending_create  |-> FALSE,
     celery_task_ids |-> {}]

\* host.py Host.dump: HostSchema().dump of a copy of the Host, dump_only fields included
Host_dump(host) ==
    [hostname        |-> host.name,
     image           |-> host.image,
     control_method  |-> host.control_method,
     tuning          |-> host.tuning,
     pending_create  |-> host.pending_create,
     celery_task_ids |-> host.celery_task_ids]

\* util.py safe_name over the names of the model: a space becomes an underscore
safe_name(value) ==
    IF value = "bad name" THEN "bad_name" ELSE value

\* HostSchema().load(data): validate_control_method raises for a control method that
\* is given ("None" stands for None) and not recognized, make_host for a name that is
\* not its own safe_name; the dump_only fields tuning, pending_create and
\* celery_task_ids are not loaded; make_host builds a new Host
HostSchema_load(data, DEFAULT_HOST_CONTROL) ==
    IF \/ data.control_method # "None"
            /\ data.control_method \notin HOST_CONTROL_CLASS_NAMES
       \/ data.hostname # safe_name(data.hostname)
    THEN [raised |-> TRUE]
    ELSE [raised |-> FALSE,
          host   |-> Host(data.hostname, data.image, DEFAULT_HOST_CONTROL)]

\* host.py Host.is_playing, with the states Celery holds for the task ids
is_playing(host, results) ==
    clear_finished_celery_task_ids(host.celery_task_ids, results) # {}

\* host_control_util.py get_host_control_class: found is whether get_attr finds the
\* class named for a plugin's control method
get_host_control_class(control_method, found) ==
    IF control_method = "DOCKER" THEN TRUE
    ELSE IF control_method \notin HOST_CONTROL_CLASS_NAMES THEN FALSE
    ELSE found

\* the outcomes of "sig.apply_async().get(10)" for the remote code hash
CodehashOutcomes ==
    {"match", "mismatch", "timeout"}

\* what one run of tune_host gives: raised, the task's max_retries afterwards,
\* whether push_johann was called, and the outcome of the last request for the remote
\* code hash ("none" when the run made none)
TuneOutcome(raised, max_retries, pushed, probe) ==
    [raised |-> raised, max_retries |-> max_retries, pushed |-> pushed, probe |-> probe]

\* A mutant of tune_host: the code hash requested after the push is not compared.
tune_host_trusts_push(max_retries, target_host_dict, DEFAULT_HOST_CONTROL, HOST_AUTO_INSTALL, results, found, pre, push_ok, post) ==
    LET loaded == HostSchema_load(target_host_dict, DEFAULT_HOST_CONTROL)
    IN  IF loaded.raised
        THEN TuneOutcome(TRUE, max_retries, FALSE, "none")
        ELSE LET host_copy == loaded.host
                 do_johann_update == pre = "mismatch"
                 do_johann_install == pre = "timeout" /\ HOST_AUTO_INSTALL
             IN  IF host_copy.name = CONDUCTOR_LOCAL_HOST_NAME
                 THEN TuneOutcome(FALSE, max_retries, FALSE, "none")
                 ELSE IF host_copy.control_method \notin HOST_CONTROL_CLASS_NAMES
                 THEN TuneOutcome(TRUE, 0, FALSE, "none")
                 ELSE IF ~get_host_control_class(host_copy.control_method, found)
                 THEN TuneOutcome(TRUE, 0, FALSE, "none")
                 ELSE IF ~(do_johann_install \/ do_johann_update)
                 THEN TuneOutcome(FALSE, max_retries, FALSE, pre)
                 ELSE IF is_playing(host_copy, results)
                 THEN TuneOutcome(TRUE, max_retries, FALSE, pre)
                 ELSE IF ~push_ok
                 THEN TuneOutcome(TRUE, max_retries, TRUE, pre)
                 ELSE TuneOutcome(post = "timeout", max_retries, TRUE, post)

\* conductor_tasks.py tune_host: one run of the task body. results are the states
\* Celery holds, pre and post the outcomes of the two remote code hash requests, found
\* and push_ok those of get_attr and push_johann
tune_host(max_retries, target_host_dict, DEFAULT_HOST_CONTROL, HOST_AUTO_INSTALL, results, found, pre, push_ok, post) ==
    LET loaded == HostSchema_load(target_host_dict, DEFAULT_HOST_CONTROL)
    IN  IF loaded.raised
        THEN TuneOutcome(TRUE, max_retries, FALSE, "none")
        ELSE LET host_copy == loaded.host
                 do_johann_update == pre = "mismatch"
                 do_johann_install == pre = "timeout" /\ HOST_AUTO_INSTALL
             IN  IF host_copy.name = CONDUCTOR_LOCAL_HOST_NAME
                 THEN TuneOutcome(FALSE, max_retries, FALSE, "none")
                 ELSE IF host_copy.control_method \notin HOST_CONTROL_CLASS_NAMES
                 THEN TuneOutcome(TRUE, 0, FALSE, "none")
                 ELSE IF ~get_host_control_class(host_copy.control_method, found)
                 THEN TuneOutcome(TRUE, 0, FALSE, "none")
                 ELSE IF ~(do_johann_install \/ do_johann_update)
                 THEN TuneOutcome(FALSE, max_retries, FALSE, pre)
                 ELSE IF is_playing(host_copy, results)
                 THEN TuneOutcome(TRUE, max_retries, FALSE, pre)
                 ELSE IF ~push_ok
                 THEN TuneOutcome(TRUE, max_retries, TRUE, pre)
                 ELSE TuneOutcome(post # "match", max_retries, TRUE, post)

\* @celery_app.task(bind=True, autoretry_for=[Exception], retry_backoff=3,
\* max_retries=2): the max_retries the task object starts with
tune_host_max_retries ==
    2

\* Celery's autoretry_for wrapper around the run: Task.retry re-raises the exception
\* once request.retries + 1 exceeds the task's max_retries, and the task fails
autoretry(retries, out) ==
    IF ~out.raised THEN "SUCCESS"
    ELSE IF retries + 1 > out.max_retries THEN "FAILURE"
    ELSE "RETRY"

TuneHostNames ==
    {"h1", CONDUCTOR_LOCAL_HOST_NAME}

\* the Host registry holds one Host, of an image config.HOST_IMAGE_PARAMS names, no
\* tune_host task is dispatched, the worker's tune_host task object has the
\* max_retries of its declaration
InitTune ==
    /\ Idle
    /\ agg = NoAggregation
    /\ store = NoStore
    /\ \E name \in TuneHostNames, image \in DOMAIN HOST_IMAGE_PARAMS \ {"blank"},
          d \in DefaultHostControls, a \in AutoInstallSettings :
          call = [fn                   |-> "tune_host",
                  done                 |-> FALSE,
                  DEFAULT_HOST_CONTROL |-> d,
                  HOST_AUTO_INSTALL    |-> a,
                  host                 |-> Host(name, image, d),
                  results              |-> <<>>,
                  max_retries          |-> tune_host_max_retries,
                  tasks                |-> <<>>]

\* player.py Player.get_local_task_signature and the group's apply_async for the
\* tune_orchestra Measure: a tune_host task with target_host_dict = host.dump()
TuneDispatch ==
    /\ call.fn = "tune_host"
    /\ Len(call.tasks) < MaxTuneTasks
    /\ call' = [call EXCEPT !.tasks =
                  Append(@, [target_host_dict |-> Host_dump(call.host),
                             state            |-> "PENDING",
                             attempts         |-> 0,
                             probe            |-> "none",
                             pushed           |-> FALSE,
                             pushed_playing   |-> FALSE])]
    /\ UNCHANGED <<schedVars, agg, store>>

\* player.py Player.enqueue for a user Measure of some Score on the Host:
\* clear_finished_celery_task_ids, then the new task's id is bookkept
HostEnqueue ==
    /\ call.fn = "tune_host"
    /\ Len(call.results) < MaxBookkept
    /\ LET id == Len(call.results) + 1
       IN  call' = [call EXCEPT
                      !.results = Append(@, [state |-> "PENDING"]),
                      !.host.celery_task_ids =
                         clear_finished_celery_task_ids(@, call.results) \cup {id}]
    /\ UNCHANGED <<schedVars, agg, store>>

\* a worker of the Host reports a new state of the bookkept task id
BookkeptStep(id, st) ==
    /\ call.fn = "tune_host"
    /\ id \in DOMAIN call.results
    /\ st \in NextTaskStates(call.results[id].state)
    /\ call' = [call EXCEPT !.results[id].state = st]
    /\ UNCHANGED <<schedVars, agg, store>>

\* the conductor's worker runs tune_host task i once, the first run or a retry;
\* request.retries is the number of runs before this one. An outcome the run does not
\* come to ask for (push_johann and the second code hash after a first code hash that
\* matches, the second code hash after a failed push) is held at one value
TuneAttempt(i, found, pre, push_ok, post) ==
    /\ call.fn = "tune_host"
    /\ i \in DOMAIN call.tasks
    /\ call.tasks[i].state \in {"PENDING", "RETRY"}
    /\ pre = "match" => push_ok
    /\ ~(pre # "match" /\ push_ok) => post = "match"
    /\ \E task \in {call.tasks[i]} :
       \E out \in {tune_host(call.max_retries, task.target_host_dict,
                             call.DEFAULT_HOST_CONTROL, call.HOST_AUTO_INSTALL,
                             call.results, found, pre, push_ok, post)} :
          call' = [call EXCEPT
                     !.max_retries = out.max_retries,
                     !.tasks[i] =
                        [task EXCEPT
                           !.state = autoretry(task.attempts, out),
                           !.attempts = @ + 1,
                           !.probe = out.probe,
                           !.pushed = out.pushed,
                           !.pushed_playing =
                              @ \/ (out.pushed /\
                                      \E id \in call.host.celery_task_ids :
                                        call.results[id].state \notin READY_STATES)]]
    /\ UNCHANGED <<schedVars, agg, store>>

NextTune ==
    \/ TuneDispatch
    \/ HostEnqueue
    \/ \E id \in 1..MaxBookkept, st \in CeleryStates : BookkeptStep(id, st)
    \/ \E i \in 1..MaxTuneTasks, found \in BOOLEAN, pre \in CodehashOutcomes,
          push_ok \in BOOLEAN, post \in CodehashOutcomes :
          TuneAttempt(i, found, pre, push_ok, post)

SpecTune ==
    InitTune /\ [][NextTune]_vars

\* C17 as claimed: tune_host never pushes code to a Host of the registry that has a
\* bookkept task id in a non-terminal state; it refuses with an error instead.
C17_NeverPushWhilePlaying ==
    call.fn = "tune_host" =>
      \A i \in DOMAIN call.tasks : ~call.tasks[i].pushed_playing

\* the control method a tune_host task was dispatched with is not a recognized one
UnrecognizedControlMethod(task) ==
    task.target_host_dict.control_method \notin HOST_CONTROL_CLASS_NAMES

\* C19 as claimed: a tune_host task runs at most 3 times, is in state FAILURE after a
\* third failed run and is not retried again, and a task for an unrecognized control
\* method is in state FAILURE after its first run.
C19_AtMostThreeAttempts ==
    call.fn = "tune_host" =>
      \A i \in DOMAIN call.tasks :
         LET task == call.tasks[i]
         IN  /\ task.attempts <= tune_host_max_retries + 1
             /\ task.attempts = tune_host_max_retries + 1
                  => task.state \in {"SUCCESS", "FAILURE"}
             /\ (UnrecognizedControlMethod(task) /\ task.attempts >= 1)
                  => task.state = "FAILURE" /\ task.attempts = 1

\* C30 as claimed: a tune_host task that has returned success for a Host other than
\* the conductor's local host had its last request for the remote code hash answered
\* with the controller's code hash, whatever HOST_AUTO_INSTALL is.
C30_SuccessMeansCodehashMatch ==
    call.fn = "tune_host" =>
      \A i \in DOMAIN call.tasks :
         (/\ call.tasks[i].state = "SUCCESS"
          /\ call.tasks[i].target_host_dict.hostname # CONDUCTOR_LOCAL_HOST_NAME)
         => call.tasks[i].probe = "match"

\* C31: a run of tune_host that called push_johann ends in success only if the code
\* hash requested after the push equals the controller's; after a mismatch or a
\* timeout of that request (or a failed push) the run has raised, and the task is
\* retried or has failed.
C31_PushedSuccessNeedsMatch ==
    call.fn = "tune_host" =>
      \A i \in DOMAIN call.tasks :
         call.tasks[i].pushed =>
           /\ call.tasks[i].state = "SUCCESS" => call.tasks[i].probe = "match"
           /\ call.tasks[i].probe \in {"mismatch", "timeout"}
                => call.tasks[i].state \in {"RETRY", "FAILURE"}

\* C31: one task pushed and got the controller's code hash afterwards, another pushed
\* and failed for good
C31_Witness ==
    /\ call.fn = "tune_host"
    /\ \E i \in DOMAIN call.tasks :
          /\ call.tasks[i].pushed
          /\ call.tasks[i].state = "SUCCESS" /\ call.tasks[i].probe = "match"
    /\ \E i \in DOMAIN call.tasks :
          /\ call.tasks[i].pushed
          /\ call.tasks[i].state = "FAILURE" /\ call.tasks[i].probe = "mismatch"

(***************************************************************************)
(* Batch updates of the Host registry (api_conductor.py _update_hosts)     *)
(***************************************************************************)

\* the entries of a batch and the batches the registry is given
MaxBatch ==
    2

MaxBatches ==
    2

\* an entry of hosts_dict: its key and its data; hostname "absent" stands for data
\* without the key "hostname"
HostEntries ==
    [key            : {"h1", "bad name"},
     hostname       : {"absent", "h2"},
     image          : {"johann_player", "blank"},
     control_method : {"None", "DOCKER", "TELNET"}]

\* the batches: dictionaries of up to MaxBatch entries, in the order of their keys
HostBatches ==
    {b \in SeqsOf(HostEntries, 1, MaxBatch) :
       \A i, j \in 1..Len(b) : i # j => b[i].key # b[j].key}

\* "if 'hostname' not in h_data: h_data['hostname'] = h_name"
WithHostname(entry) ==
    [hostname       |-> IF entry.hostname = "absent" THEN entry.key ELSE entry.hostname,
     image          |-> entry.image,
     control_method |-> entry.control_method]

\* the first loop of _update_hosts: the Hosts loaded from the entries, and success =
\* FALSE once an entry raised MarshmallowValidationError
RECURSIVE LoadHosts(_, _)
LoadHosts(acc, batch) ==
    IF batch = <<>>
    THEN acc
    ELSE LET loaded == HostSchema_load(WithHostname(Head(batch)), "DOCKER")
         IN  LoadHosts(
               IF loaded.raised
               THEN [acc EXCEPT !.success = FALSE]
               ELSE [acc EXCEPT !.valid_hosts = Append(@, loaded.host)],
               Tail(batch))

\* host.py Host.copy_from for the fields of the model: set_image matches the control
\* method to the new image, then the control method is copied; what the Host
\* bookkeeps is kept
copy_from(extant_host, host) ==
    [extant_host EXCEPT !.image = host.image, !.control_method = host.control_method]

\* the second loop of _update_hosts: a Host of the registry with the name is updated
\* by copy_from, which returns success, another Host is added
RECURSIVE ApplyHosts(_, _)
ApplyHosts(acc, valid_hosts) ==
    IF valid_hosts = <<>>
    THEN acc
    ELSE LET h == Head(valid_hosts)
             extant == {x \in acc.registry : x.name = h.name}
         IN  ApplyHosts(
               IF extant # {}
               THEN [acc EXCEPT
                       !.registry = (@ \ extant) \cup {copy_from(x, h) : x \in extant},
                       !.success = TRUE]
               ELSE [acc EXCEPT !.registry = @ \cup {h}],
               Tail(valid_hosts))

\* A mutant of _update_hosts: the valid entries are applied whatever allow_invalid is.
update_hosts_always_applies(registry, hosts_dict, allow_invalid) ==
    LET loaded == LoadHosts([valid_hosts |-> <<>>, success |-> TRUE], hosts_dict)
        applied == ApplyHosts([registry |-> registry, success |-> loaded.success],
                              loaded.valid_hosts)
    IN  [success  |-> applied.success,
         registry |-> applied.registry,
         names    |-> [i \in 1..Len(loaded.valid_hosts) |-> loaded.valid_hosts[i].name]]

\* api_conductor.py _update_hosts(hosts_dict, allow_invalid) on the registry: what it
\* returns (success and the names of the Hosts applied) and the registry afterwards
update_hosts(registry, hosts_dict, allow_invalid) ==
    LET loaded == LoadHosts([valid_hosts |-> <<>>, success |-> TRUE], hosts_dict)
        applied == ApplyHosts([registry |-> registry, success |-> loaded.success],
                              loaded.valid_hosts)
    IN  IF ~loaded.success /\ ~allow_invalid
        THEN [success |-> FALSE, registry |-> registry, names |-> <<>>]
        ELSE [success  |-> applied.success,
              registry |-> applied.registry,
              names    |-> [i \in 1..Len(loaded.valid_hosts) |->
                              loaded.valid_hosts[i].name]]

\* the registry is empty and no batch was given
InitHosts ==
    /\ Idle
    /\ agg = NoAggregation
    /\ store = NoStore
    /\ call = [fn            |-> "_update_hosts",
               done          |-> FALSE,
               batches       |-> 0,
               registry      |-> {},
               before        |-> {},
               hosts_dict    |-> <<>>,
               allow_invalid |-> FALSE,
               out           |-> [success |-> TRUE, names |-> <<>>]]

\* _update_hosts is called with the batch; before keeps the registry as it was
UpdateHosts(hosts_dict, allow_invalid) ==
    /\ call.fn = "_update_hosts"
    /\ call.batches < MaxBatches
    /\ LET ret == update_hosts(call.registry, hosts_dict, allow_invalid)
       IN  call' = [call EXCEPT
                      !.done = TRUE,
                      !.batches = @ + 1,
                      !.before = call.registry,
                      !.registry = ret.registry,
                      !.hosts_dict = hosts_dict,
                      !.allow_invalid = allow_invalid,
                      !.out = [success |-> ret.success, names |-> ret.names]]
    /\ UNCHANGED <<schedVars, agg, store>>

\* api_conductor.py add_hosts: the request's "hosts" with allow_invalid = False
AddHosts(hosts_dict) ==
    UpdateHosts(hosts_dict, FALSE)

\* api_conductor.py read_hosts_file: the file's "hosts" with allow_invalid = True
ReadHostsFile(hosts_dict) ==
    UpdateHosts(hosts_dict, TRUE)

NextHosts ==
    \/ \E hosts_dict \in HostBatches : AddHosts(hosts_dict)
    \/ \E hosts_dict \in HostBatches : ReadHostsFile(hosts_dict)

SpecHosts ==
    InitHosts /\ [][NextHosts]_vars

\* an entry of the last batch failed validation
SomeEntryInvalid ==
    \E i \in 1..Len(call.hosts_dict) :
       HostSchema_load(WithHostname(call.hosts_dict[i]), "DOCKER").raised

\* C20: a batch given with allow_invalid = false (add_hosts) in which an entry fails
\* validation leaves the Host registry as it was, no Host added and none modified, and
\* reports failure; the valid entries of such a batch are applied only with
\* allow_invalid = true.
C20_BatchUpdateAtomic ==
    (call.fn = "_update_hosts" /\ call.done /\ SomeEntryInvalid) =>
      /\ ~call.allow_invalid =>
           call.registry = call.before /\ ~call.out.success /\ call.out.names = <<>>
      /\ call.registry # call.before => call.allow_invalid

\* C20: add_hosts was given a batch whose first entry is valid, and would have changed
\* a Host of the registry, and whose second entry is not; the registry is as before
C20_Witness ==
    /\ call.fn = "_update_hosts" /\ call.done /\ ~call.allow_invalid
    /\ Len(call.hosts_dict) = 2
    /\ ~HostSchema_load(WithHostname(call.hosts_dict[1]), "DOCKER").raised
    /\ HostSchema_load(WithHostname(call.hosts_dict[2]), "DOCKER").raised
    /\ \E x \in call.before :
          /\ x.name = WithHostname(call.hosts_dict[1]).hostname
          /\ x.image # call.hosts_dict[1].image
    /\ call.registry = call.before
    /\ ~call.out.success


(***************************************************************************)
(* The roll call applied to drawn registries (score.py                     *)
(* Score.validate_create_host_mappings)                                    *)
(***************************************************************************)

\* the scenario files of the roll call: Players p1 and p2, create_hosts either way
RollScoreFiles ==
    {f \in ScoreFiles :
       /\ \A m \in {"A", "B"} : f.depends_on[m] = <<>> /\ ~f.dependency_proof[m]
       /\ f.player_names["A"] = <<"p1", "p2">>}

\* the Hosts of a registry: a name that is not in the registry, a Host as
\* Host.__init__ leaves it, and a Host marked for creation by an earlier roll call
RollHosts ==
    {NewHost(FALSE), NewHost(TRUE), [NewHost(TRUE) EXCEPT !.pending_create = TRUE]}

\* a loaded Score, a Host registry and a control backend before the roll call
InitRoll ==
    /\ Idle
    /\ agg = NoAggregation
    /\ store = NoStore
    /\ \E f \in RollScoreFiles, hs \in [HostNames -> RollHosts], ex \in SUBSET HostNames :
          call = [fn       |-> "validate_create_host_mappings",
                  done     |-> FALSE,
                  score    |-> NewScore(f),
                  before   |-> hs,
                  registry |-> hs,
                  exists   |-> ex,
                  success  |-> TRUE,
                  raised   |-> FALSE]

\* score.validate_create_host_mappings() of roll_call and cue_the_music
ValidateCreateHostMappings ==
    /\ call.fn = "validate_create_host_mappings"
    /\ ~call.done
    /\ \E v \in {validate_create_host_mappings(call.score, call.before, call.exists)} :
          call' = [call EXCEPT !.done = TRUE,
                               !.registry = v.hosts,
                               !.success = v.success,
                               !.raised = v.raised]
    /\ UNCHANGED <<schedVars, agg, store>>

NextRoll ==
    ValidateCreateHostMappings

SpecRoll ==
    InitRoll /\ [][NextRoll]_vars

\* the hostnames the Score's Players reference
Referenced(sc) ==
    UNION {SeqToSet(user_hostnames[sc.players[i]]) : i \in 1..Len(sc.players)}

\* the referenced hostnames whose host does not exist according to the backend
Nonexistent ==
    Referenced(call.score) \ call.exists

\* C33 as claimed: with create_hosts = true the roll call completes without raising
\* and leaves, for every referenced hostname whose host does not exist according to
\* the control backend, a Host of that name with pending_create = true in the
\* registry, whether or not the name was in the registry before; with create_hosts =
\* false a referenced host that does not exist makes the roll call return failure.
C33_NonexistentHostMarkedOrRejected ==
    (call.fn = "validate_create_host_mappings" /\ call.done) =>
      IF call.score.create_hosts
      THEN /\ ~call.raised
           /\ \A h \in Nonexistent :
                 call.registry[h].present /\ call.registry[h].pending_create
      ELSE Nonexistent # {} => ~call.raised /\ ~call.success


(***************************************************************************)
(* The cached confirmation of a Host (score.py                             *)
(* Score.validate_create_host_mappings, "check if the host was recently    *)
(* confirmed to be turned on"). Times are whole seconds.                   *)
(***************************************************************************)

\* config.py HOST_CONFIRMED_ON_VALID_SECS
HOST_CONFIRMED_ON_VALID_SECS == 30

\* the seconds of a day, by which datetime.timedelta normalises its fields
SECONDS_PER_DAY == 86400

\* the longest time since the last confirmation that is drawn
MaxElapsed == 86440

\* host.py Host.last_confirmed_on = None
NeverConfirmed == -1

\* "(datetime.utcnow() - host_obj.last_confirmed_on).seconds": the seconds field of
\* the timedelta, which leaves out its days
check_age(utcnow, last_confirmed_on) ==
    (utcnow - last_confirmed_on) % SECONDS_PER_DAY

\* host_recently_confirmed_on of validate_create_host_mappings
host_recently_confirmed_on(utcnow, last_confirmed_on) ==
    /\ last_confirmed_on # NeverConfirmed
    /\ check_age(utcnow, last_confirmed_on) < HOST_CONFIRMED_ON_VALID_SECS

\* the part of validate_create_host_mappings from the cache check to the existence
\* check for one Host: checked = host_exists was called, last_confirmed_on as the
\* Host keeps it
confirm_host(utcnow, last_confirmed_on, exists) ==
    LET recently == host_recently_confirmed_on(utcnow, last_confirmed_on)
        host_confirmed_on == ~recently /\ exists
    IN [checked           |-> ~recently,
        confirmed         |-> recently \/ host_confirmed_on,
        last_confirmed_on |-> IF host_confirmed_on THEN utcnow ELSE last_confirmed_on]

\* a Host confirmed at time 0 or never, the time of the roll call and whether the
\* control backend reports the host as existing
InitConfirm ==
    /\ Idle
    /\ agg = NoAggregation
    /\ store = NoStore
    /\ \E last \in {NeverConfirmed, 0}, now \in 0..MaxElapsed, ex \in BOOLEAN :
          call = [fn                |-> "confirm_host",
                  done              |-> FALSE,
                  utcnow            |-> now,
                  before            |-> last,
                  last_confirmed_on |-> last,
                  exists            |-> ex,
                  checked           |-> FALSE,
                  confirmed         |-> FALSE]

\* the roll call reaches the Host
ConfirmHost ==
    /\ call.fn = "confirm_host"
    /\ ~call.done
    /\ \E r \in {confirm_host(call.utcnow, call.before, call.exists)} :
          call' = [call EXCEPT !.done = TRUE,
                               !.checked = r.checked,
                               !.confirmed = r.confirmed,
                               !.last_confirmed_on = r.last_confirmed_on]
    /\ UNCHANGED <<schedVars, agg, store>>

NextConfirm ==
    ConfirmHost

SpecConfirm ==
    InitConfirm /\ [][NextConfirm]_vars

\* C34 as claimed: the existence check is skipped only if the Host was confirmed
\* less than HOST_CONFIRMED_ON_VALID_SECS seconds ago; for every longer time since
\* the confirmation, of a day or more as well, the check is performed again.
C34_ExistenceCheckSkippedOnlyWhenFresh ==
    (call.fn = "confirm_host" /\ call.done) =>
      (~call.checked <=>
         /\ call.before # NeverConfirmed
         /\ call.utcnow - call.before < HOST_CONFIRMED_ON_VALID_SECS)


(***************************************************************************)
(* The arguments of a Measure (util.py transform_args, transform_arg)      *)
(***************************************************************************)

\* bound of the drawn arguments: the items of measure.args
MaxArgs == 2

\* the str "johann.random.<low>-<high>", low and high strings of digits
RandomToken(low, high) ==
    [t |-> "str", random |-> <<low, high>>]

\* util.py transform_arg(score, measure, player, a): the outcomes it may have, one
\* for every number random.randint may draw; a str that does not start with
\* "johann." and a value that is no str are returned as they are
transform_arg(stored_data, score_name, lazy_fetch_stored, a) ==
    IF a.t = "str" /\ "stored" \in DOMAIN a
    THEN {transform_arg_stored(stored_data, score_name, lazy_fetch_stored, a.stored)}
    ELSE IF a.t = "str" /\ "random" \in DOMAIN a
    THEN IF \/ parse_special_arg_random(a.random[1], a.random[2]).raised
            \/ int(a.random[1]) > int(a.random[2])
         THEN {Transformed("ValueError", PyNone, FALSE)}
         ELSE {Transformed("none", PyInt(n), FALSE) :
                 n \in int(a.random[1])..int(a.random[2])}
    ELSE {Transformed("none", a, FALSE)}

\* what transform_args gives: the exception that leaves it ("none" when it returns)
\* and the list returned
TransformedArgs(exc, new_args) ==
    [exc |-> exc, new_args |-> new_args]

RECURSIVE transform_args(_, _, _, _)
RECURSIVE transform_args_dict(_, _, _, _, _)

\* the branch "elif isinstance(a, dict)" of transform_args: "for k, v in a" goes
\* through the keys of the dict and unpacks every key into k and v, ValueError unless
\* the key has two items; for a key that is a str of two characters v is a str of one
\* character, which transform_args goes through as a sequence of one str
transform_args_dict(stored_data, score_name, lazy_fetch_stored, entries, new_arg) ==
    IF entries = <<>>
    THEN {TransformedArgs("none", <<PyDict(new_arg)>>)}
    ELSE LET key == Head(entries).k
         IN IF Len(key) # 2
            THEN {TransformedArgs("ValueError", <<>>)}
            ELSE UNION {
                   IF r.exc # "none"
                   THEN {TransformedArgs(r.exc, <<>>)}
                   ELSE transform_args_dict(stored_data, score_name, lazy_fetch_stored,
                                            Tail(entries),
                                            DictSet(new_arg, <<key[1]>>, PyList(r.new_args))) :
                   r \in transform_args(stored_data, score_name, lazy_fetch_stored,
                                        <<PyStr(<<key[2]>>)>>)}

\* util.py transform_args(score, measure, player, args) for the items of a list: the
\* outcomes it may have
transform_args(stored_data, score_name, lazy_fetch_stored, args) ==
    IF args = <<>>
    THEN {TransformedArgs("none", <<>>)}
    ELSE LET a == Head(args)
             first ==
               IF a.t = "str"
               THEN {TransformedArgs(x.exc, <<x.value>>) :
                       x \in transform_arg(stored_data, score_name, lazy_fetch_stored, a)}
               ELSE IF a.t = "list"
               THEN {TransformedArgs(r.exc, <<PyList(r.new_args)>>) :
                       r \in transform_args(stored_data, score_name, lazy_fetch_stored,
                                            a.items)}
               ELSE IF a.t = "dict"
               THEN transform_args_dict(stored_data, score_name, lazy_fetch_stored,
                                        a.entries, <<>>)
               ELSE {TransformedArgs("none", <<a>>)}
         IN UNION {
              IF f.exc # "none"
              THEN {TransformedArgs(f.exc, <<>>)}
              ELSE {IF r.exc # "none" THEN TransformedArgs(r.exc, <<>>)
                    ELSE TransformedArgs("none", f.new_args \o r.new_args) :
                      r \in transform_args(stored_data, score_name, lazy_fetch_stored,
                                           Tail(args))} :
              f \in first}

\* the drawn arguments: None, an int, a str, a token that resolves to 1, 2 or 3, and
\* the lists and dicts of these, one level deep or two
ArgAtoms ==
    {PyNone, PyInt(0), PyStr(<<"x">>), RandomToken(<<"1">>, <<"3">>)}

ArgKeys ==
    {<<"x">>, <<"x", "0">>}

ArgLists ==
    {PyList(l) : l \in SeqsOf(ArgAtoms, 0, MaxLen)}

ArgDicts ==
    {PyDict(<<>>)}
      \cup {PyDict(<<[k |-> key, v |-> val]>>) :
              key \in ArgKeys, val \in ArgAtoms \cup {PyList(<<a>>) : a \in ArgAtoms}}

ArgValues ==
    ArgAtoms \cup ArgLists \cup ArgDicts \cup {PyList(<<c>>) : c \in ArgDicts}

\* a Measure with args, about to be played
InitArgs ==
    /\ Idle
    /\ agg = NoAggregation
    /\ store = NoStore
    /\ \E args \in SeqsOf(ArgValues, 1, MaxArgs) :
          call = [fn |-> "transform_args", done |-> FALSE, args |-> args,
                  out |-> TransformedArgs("none", <<>>)]

\* "new_args = transform_args(self, measure, player, measure.args)" of play_the_player
TransformArgs ==
    /\ call.fn = "transform_args"
    /\ ~call.done
    /\ \E r \in transform_args(PyDict(<<>>), ScoreName, FALSE, call.args) :
          call' = [call EXCEPT !.done = TRUE, !.out = r]
    /\ UNCHANGED <<schedVars, agg, store>>

NextArgs ==
    TransformArgs

SpecArgs ==
    InitArgs /\ [][NextArgs]_vars

RECURSIVE Resolved(_)
RECURSIVE ResolvedItems(_)
RECURSIVE ResolvedEntries(_)

\* the values of the same shape as v in which every special token is replaced by a
\* value it resolves to and everything else, the keys of a mapping too, is as in v
Resolved(v) ==
    IF v.t = "str" /\ "random" \in DOMAIN v
    THEN {PyInt(n) : n \in int(v.random[1])..int(v.random[2])}
    ELSE IF v.t = "list" THEN {PyList(l) : l \in ResolvedItems(v.items)}
    ELSE IF v.t = "dict" THEN {PyDict(e) : e \in ResolvedEntries(v.entries)}
    ELSE {v}

ResolvedItems(items) ==
    IF items = <<>> THEN {<<>>}
    ELSE {<<x>> \o rest : x \in Resolved(Head(items)), rest \in ResolvedItems(Tail(items))}

ResolvedEntries(entries) ==
    IF entries = <<>> THEN {<<>>}
    ELSE {<<[k |-> Head(entries).k, v |-> x]>> \o rest :
            x \in Resolved(Head(entries).v), rest \in ResolvedEntries(Tail(entries))}

\* C37 as claimed: transform_args returns a list of the same shape as args, with
\* every special token replaced by a value it resolves to and every other value and
\* every key of a mapping unchanged; arguments without a special token, mappings
\* among them, come back equal.
C37_TransformArgsPreservesShape ==
    (call.fn = "transform_args" /\ call.done) =>
      /\ call.out.exc = "none"
      /\ call.out.new_args \in ResolvedItems(call.args)


(***************************************************************************)
(* A special argument as start_delay (score.py Score.play_the_player,      *)
(* measure.py MeasureSchema.validate_start_delay)                          *)
(*                                                                         *)
(* Measure A (store_as, not store_singleton) has finished on the Hosts of  *)
(* its Player; Measure B depends on A, has no args, and its start_delay is *)
(* an int or a special argument.                                           *)
(***************************************************************************)

\* what play_the_player leaves of B: the Measure's state and finished, whether
\* Player.enqueue was called, and the delay it was called with
Played(state, finished, dispatched, delay) ==
    [state |-> state, finished |-> finished, dispatched |-> dispatched, delay |-> delay]

\* score.py Score.play_the_player for a Measure without args whose Hosts accept the
\* tasks: a str start_delay goes through transform_arg and must come back as an int;
\* the exceptions play_the_player catches fail the Measure without finishing it, any
\* other exception leaves it and wrap_future sets FAILURE and finished
play_the_player_delay(stored_data, score_name, lazy_fetch_stored, start_delay) ==
    IF start_delay.t # "str"
    THEN {Played("QUEUED", FALSE, TRUE, start_delay)}
    ELSE {IF x.exc \in {"AssertionError", "KeyError", "ValueError"}
          THEN Played("FAILURE", FALSE, FALSE, PyNone)
          ELSE IF x.exc # "none"
          THEN Played("FAILURE", TRUE, FALSE, PyNone)
          ELSE IF x.value.t # "int"
          THEN Played("FAILURE", FALSE, FALSE, PyNone)
          ELSE Played("QUEUED", FALSE, TRUE, x.value) :
            x \in transform_arg(stored_data, score_name, lazy_fetch_stored, start_delay)}

\* measure.py MeasureSchema.validate_start_delay: the start_delay values a scenario
\* file may hold, an int or a str that parse_special_arg accepts
StartDelays ==
    {PyInt(0)}
      \cup {StoredToken(tok) : tok \in {x \in StoredTokens : Len(x) <= 4}}
      \cup {RandomToken(b[1], b[2]) :
              b \in {x \in Bounds \X Bounds : ~StrGreater(x[1], x[2])}}

\* the tasks of A, finished: what each returned
FinishedTasks ==
    {[i \in 1..Len(PlayerHosts) |->
        [host_name      |-> PlayerHosts[i],
         state          |-> st[i],
         result         |-> IF st[i] = "SUCCESS" THEN v[i] ELSE PyNone,
         interim_result |-> PyNone]] :
       st \in [1..Len(PlayerHosts) -> {"SUCCESS", "FAILURE"}],
       v \in [1..Len(PlayerHosts) -> {PyNone, PyInt(1)}]}

\* A has finished and its results are stored; B is not played yet
InitDelay ==
    /\ Idle
    /\ agg = NoAggregation
    /\ store = NoStore
    /\ \E tasks \in FinishedTasks, lazy \in BOOLEAN, delay \in StartDelays :
          call = [fn                |-> "play_delay",
                  done              |-> FALSE,
                  lazy_fetch_stored |-> lazy,
                  start_delay       |-> delay,
                  stored_data       |-> Measure_store_results(PyDict(<<>>), FALSE, tasks),
                  B                 |-> Played("PENDING", FALSE, FALSE, PyNone)]

\* smart_queue queues B and play_the_player runs for B's Player
PlayDelay ==
    /\ call.fn = "play_delay"
    /\ ~call.done
    /\ \E r \in play_the_player_delay(call.stored_data, ScoreName,
                                      call.lazy_fetch_stored, call.start_delay) :
          call' = [call EXCEPT !.done = TRUE, !.B = r]
    /\ UNCHANGED <<schedVars, agg, store>>

NextDelay ==
    PlayDelay

SpecDelay ==
    InitDelay /\ [][NextDelay]_vars

\* C38 as claimed: a Measure whose start_delay is a johann.stored token is never
\* dispatched, play_the_player leaves it in state FAILURE; a johann.random token
\* that is dispatched has resolved to an integer within its bounds.
C38_StoredStartDelayNeverDispatched ==
    (call.fn = "play_delay" /\ call.done) =>
      /\ "stored" \in DOMAIN call.start_delay
           => ~call.B.dispatched /\ call.B.state = "FAILURE"
      /\ ("random" \in DOMAIN call.start_delay /\ call.B.dispatched)
           => /\ call.B.delay.t = "int"
              /\ call.B.delay.n >= int(call.start_delay.random[1])
              /\ call.B.delay.n <= int(call.start_delay.random[2])

====
